---------------------------- MODULE Spec2Model ----------------------------
(***************************************************************************)
(* Living Lexicon: the scan-request core of server.js.                     *)
(*   - retry (services/vertexAIService.js): exponential backoff wrapper    *)
(*   - cacheService.js: two node-cache instances and the scan fingerprint  *)
(*   - POST /api/scan and GET /api/collection/:sessionId handlers          *)
(*   - firestoreService.js / storageService.js as the handlers call them   *)
(* JavaScript handlers run to completion between awaits, so there is one   *)
(* action per arrival of a request and per resumption after an await.      *)
(***************************************************************************)
EXTENDS Integers, Sequences, FiniteSets, TLC

VARIABLES
    loaded,      \* how many service modules the require block got to load
    now,         \* Date.now(), in seconds
    scanCache,   \* node-cache instance scanCache: [data, hits, misses]
    collCache,   \* node-cache instance collectionCache
    sessionsDb,  \* Firestore sessions/{sessionId}
    monstersDb,  \* Firestore sessions/{sessionId}/monsters/{id}
    analytics,   \* Firestore analytics/globalStats
    scan,        \* POST /api/scan requests: the handler's locals and position
    scanResp,    \* the responses sent to them
    coll,        \* GET /api/collection/:sessionId requests
    collResp,    \* the responses sent to them
    rp,          \* one stand-alone call of retry(fn, retries, delay)
    cs,          \* the last direct call of a cacheService function, with its result
    limiter,     \* express-rate-limit: the limiters' stores and what was let through
    player       \* one POST /api/player request: the handler's locals and its response

vars == <<loaded, now, scanCache, collCache, sessionsDb, monstersDb, analytics,
          scan, scanResp, coll, collResp, rp, cs, limiter, player>>

---------------------------------------------------------------------------
(* Bounds of the model *)

\* The clock advances in steps of TickSecs seconds, MaxTicks times at most.
TickSecs == 200
MaxTicks == 2
\* Capacities of the two caches, scaled down from maxKeys 50 and 100 so that
\* a full cache is reachable with the model's few images and sessions.
ScanMaxKeys == 1
CollMaxKeys == 1
\* Stand-alone retry calls: the largest `retries` argument tried.
MaxRetryArg == 4
\* Direct calls of cacheService functions: how many are made.
MaxCacheOps == 3
\* Requests to routes under /api/: how many are made.
MaxApiCalls == 11

(* Program constants *)

ScanStdTTL == 300
CollStdTTL == 60
DefaultRetries == 3
DefaultDelay == 1000
WindowLen == 64
MaxImageLen == 10 * 1024 * 1024
\* express.json({ limit: '10mb' }): the largest request body, in bytes.
ParserLimit == 10 * 1024 * 1024
\* rateLimiter.js: windowMs (in seconds) and max of apiLimiter and scanLimiter.
RateWindow == 60
ApiMax == 10
ScanMax == 5
\* recaptcha.js: MIN_SCORE = 0.5, with scores counted in tenths.
MinScore == 5

ScanReqs == {"q1", "q2"}
CollReqs == {"g1", "g2"}
Sessions == {"S1", "S2"}
\* Client addresses (the limiters' keys) and the routes under /api/.
Clients == {"ip1", "ip2"}
ApiRoutes == {"scan", "collection"}

\* A JavaScript string of character codes: the codes of head followed by pad
\* copies of "A" (65), so that payloads of megabytes can be written down.
Str(head, pad) == [head |-> head, pad |-> pad]
EmptyStr == Str(<<>>, 0)
\* String.prototype.length
StrLen(x) == Len(x.head) + x.pad
\* String.prototype.charCodeAt(i - 1)
CharAt(x, i) == IF i <= Len(x.head) THEN x.head[i] ELSE 65

\* Image payloads "AB" and "AC".
Images == {Str(<<65, 66>>, 0), Str(<<65, 67>>, 0)}

Min(a, b) == IF a < b THEN a ELSE b

---------------------------------------------------------------------------
(* cacheService.js: fingerprint *)

\* String.prototype.substring(a, b) for 0 <= a <= b, 0-based, end exclusive.
Substring(s, a, b) ==
    LET lo == Min(a, StrLen(s))
        hi == Min(b, StrLen(s))
    IN  [i \in 1..(hi - lo) |-> CharAt(s, lo + i)]

\* A 32-bit word as two 16-bit halves <<hi, lo>>.
\* hash = ((hash << 5) + hash + c) & 0xffffffff
HashStep(h, c) ==
    LET lo == h[2] * 33 + c
        hi == h[1] * 33 + (lo \div 65536)
    IN  <<hi % 65536, lo % 65536>>

\* The loop over str[i..j], left to right, split in halves to keep the
\* recursion shallow for samples of a few hundred characters.
RECURSIVE HashRange(_, _, _, _)
HashRange(h, str, i, j) ==
    IF i > j THEN h
    ELSE IF i = j THEN HashStep(h, str[i])
    ELSE LET left == HashRange(h, str, i, (i + j) \div 2)
         IN  \* the test evaluates left before the right half is entered
             IF left[1] >= 0 THEN HashRange(left, str, ((i + j) \div 2) + 1, j)
             ELSE left

HashFrom(h, str, i) == HashRange(h, str, i, Len(str))

HexDigit(d) == IF d < 10 THEN 48 + d ELSE 87 + d

RECURSIVE StripZeros(_)
StripZeros(ds) ==
    IF Len(ds) > 1 /\ ds[1] = 48 THEN StripZeros(Tail(ds)) ELSE ds

\* Number.prototype.toString(16) of the signed 32-bit value of the word h.
ToString16(h) ==
    LET neg == h[1] >= 32768
        mlo == IF neg THEN (65536 - h[2]) % 65536 ELSE h[2]
        mhi == IF neg THEN (65535 - h[1] + (IF h[2] = 0 THEN 1 ELSE 0)) % 65536
                      ELSE h[1]
        nib(x) == << HexDigit(x \div 4096), HexDigit((x \div 256) % 16),
                     HexDigit((x \div 16) % 16), HexDigit(x % 16) >>
        digits == StripZeros(nib(mhi) \o nib(mlo))
    IN  IF neg THEN <<45>> \o digits ELSE digits

\* DJB2 over the UTF-16 code units of str, as a hex string.
hashString(str) == ToString16(HashFrom(<<0, 5381>>, str, 1))

\* A faulty fingerprint that hashes the whole image: C26_WindowsDecide must
\* not survive it.
generateScanKeyWhole(base64Image) ==
    <<115, 99, 97, 110, 58>>
        \o hashString(Substring(base64Image, 0, StrLen(base64Image)))

\* A faulty fingerprint that mixes the clock in: C20_FingerprintDeterministic
\* must not survive it.
generateScanKeySalted(base64Image) ==
    <<115, 99, 97, 110, 58>>
        \o hashString(Substring(base64Image, 0, WindowLen) \o <<124, now>>)

generateScanKey(base64Image) ==
    LET len == StrLen(base64Image)
        bar == <<124>>
        sample == Substring(base64Image, 0, WindowLen) \o bar
               \o Substring(base64Image, len \div 4, (len \div 4) + WindowLen) \o bar
               \o Substring(base64Image, len \div 2, (len \div 2) + WindowLen) \o bar
               \o Substring(base64Image, (3 * len) \div 4, ((3 * len) \div 4) + WindowLen)
    IN  <<115, 99, 97, 110, 58>> \o hashString(sample)

collectionKey(sessionId) == <<"collection:", sessionId>>

---------------------------------------------------------------------------
(* node-cache, as cacheService.js configures and calls it.  An instance is  *)
(* [data: key -> [t: expiry, v: value], hits, misses]; stats.keys is the    *)
(* number of keys of data.                                                  *)

Remove(f, k) == [x \in (DOMAIN f) \ {k} |-> f[x]]
Put(f, k, v) == [x \in (DOMAIN f) \cup {k} |-> IF x = k THEN v ELSE f[x]]

EmptyCache == [data |-> [x \in {} |-> 0], hits |-> 0, misses |-> 0]

\* A faulty _check for which nothing ever expires: C18_CacheExpiry must not
\* survive it.
NCNeverExpired(e, t) == FALSE

\* _check: an entry with a ttl is expired once its expiry time has passed.
NCExpired(e, t) == e.t # 0 /\ e.t < t

\* A faulty get that never finds anything: the cache-hit property C2_CacheHit
\* must not survive it.
NCGetMiss(c, key, t) == [cache |-> [c EXCEPT !.misses = @ + 1], found |-> FALSE]

\* get(key): a live entry is a hit; an expired one is deleted and is a miss.
NCGet(c, key, t) ==
    IF key \in DOMAIN c.data /\ ~NCExpired(c.data[key], t)
    THEN [cache |-> [c EXCEPT !.hits = @ + 1], found |-> TRUE, v |-> c.data[key].v]
    ELSE [cache |-> [c EXCEPT !.misses = @ + 1, !.data = Remove(@, key)],
          found |-> FALSE]

\* A faulty set without the maxKeys check: C17_CacheBounded must not survive
\* it.
NCSetUnbounded(c, key, val, t, stdTTL, maxKeys) ==
    [ok |-> TRUE,
     cache |-> [c EXCEPT !.data = Put(@, key, [t |-> t + stdTTL, v |-> val])]]

\* set(key, value): throws ECACHEFULL when stats.keys >= maxKeys (checked before
\* looking whether the key exists); otherwise stores value with the std ttl.
NCSet(c, key, val, t, stdTTL, maxKeys) ==
    IF Cardinality(DOMAIN c.data) >= maxKeys
    THEN [ok |-> FALSE, cache |-> c]
    ELSE [ok |-> TRUE,
          cache |-> [c EXCEPT !.data =
                        Put(@, key, [t |-> IF stdTTL = 0 THEN 0 ELSE t + stdTTL,
                                     v |-> val])]]

\* A faulty del that drops every entry: C19_InvalidateCollection must not
\* survive it.
NCDelAll(c, key) == [c EXCEPT !.data = [k \in {} |-> c.data[k]]]

\* del(key)
NCDel(c, key) == [c EXCEPT !.data = Remove(@, key)]

\* flushAll(): the data and the statistics are reset.
NCFlushAll(c) == EmptyCache

\* A faulty sweep that drops live entries too: the dedup property
\* C4_DedupOncePopulated must not survive it.
NCCheckDataAll(c, t) == [c EXCEPT !.data = [k \in {} |-> c.data[k]]]

\* _checkData: the periodic sweep (checkperiod) deletes every expired entry.
NCCheckData(c, t) ==
    LET live == {k \in DOMAIN c.data : ~NCExpired(c.data[k], t)}
    IN  [c EXCEPT !.data = [k \in live |-> c.data[k]]]

\* Whether get(key) would hit at time t (no side effect).
NCLive(c, key, t) == key \in DOMAIN c.data /\ ~NCExpired(c.data[key], t)

\* A faulty setCachedScan that stores nothing: C3_SequentialDedup must not
\* survive it.
setCachedScanDropped(base64Image, result) == [ok |-> TRUE, cache |-> scanCache]

\* A faulty invalidateCollection that leaves the entry: C9_CachesAtResponse
\* must not survive it.
keepCollection(sessionId) == collCache

getCachedScan(base64Image) == NCGet(scanCache, generateScanKey(base64Image), now)

setCachedScan(base64Image, result) ==
    NCSet(scanCache, generateScanKey(base64Image), result, now, ScanStdTTL, ScanMaxKeys)

\* A faulty getCachedCollection that looks the bare session id up:
\* C15_CacheRoundTrip must not survive it.
getCachedCollectionBare(sessionId) == NCGet(collCache, <<sessionId>>, now)

getCachedCollection(sessionId) == NCGet(collCache, collectionKey(sessionId), now)

setCachedCollection(sessionId, monsters) ==
    NCSet(collCache, collectionKey(sessionId), monsters, now, CollStdTTL, CollMaxKeys)

invalidateCollection(sessionId) == NCDel(collCache, collectionKey(sessionId))

---------------------------------------------------------------------------
(* vertexAIService.js: retry(fn, retries, delay).  A call in progress is    *)
(* [st, retries, delay, calls, waited, error]: calls counts the invocations *)
(* of fn, waited sums the timer delays, error is what the call rejected     *)
(* with.                                                                    *)

NoError == <<>>
IdleRetry == [st |-> "idle", retries |-> 0, delay |-> 0, calls |-> 0,
              waited |-> 0, error |-> NoError]

\* retry(fn, retries, delay) is entered: fn() is invoked and awaited.
RetryEnter(rt, retries, delay) ==
    [rt EXCEPT !.st = "pending", !.retries = retries, !.delay = delay,
               !.calls = @ + 1]

\* fn() resolved: return await fn()
RetryResolve(rt) == [rt EXCEPT !.st = "resolved"]

\* A faulty catch that gives up one retry early: C1_RetryCounts must not
\* survive it.
RetryCatchEarly(rt, err) ==
    IF rt.retries <= 1
    THEN [rt EXCEPT !.st = "rejected", !.error = err]
    ELSE [rt EXCEPT !.st = "sleeping"]

\* fn() threw err: rethrow it when retries <= 0, else await the timer.
RetryCatch(rt, err) ==
    IF rt.retries <= 0
    THEN [rt EXCEPT !.st = "rejected", !.error = err]
    ELSE [rt EXCEPT !.st = "sleeping"]

\* A faulty retry that waits the same delay every time: C25_BackoffDelays
\* must not survive it.
RetryWakeFlat(rt) ==
    RetryEnter([rt EXCEPT !.waited = @ + rt.delay], rt.retries - 1, rt.delay)

\* The timer fired after delay ms: return retry(fn, retries - 1, delay * 2)
RetryWake(rt) ==
    RetryEnter([rt EXCEPT !.waited = @ + rt.delay], rt.retries - 1, rt.delay * 2)

---------------------------------------------------------------------------
(* middleware/rateLimiter.js: apiLimiter and scanLimiter, two middlewares of *)
(* express-rate-limit, each with a memory store of its own:                  *)
(* [hits: key -> requests counted in the key's window, resetTime: key ->     *)
(* the end of that window].                                                  *)

EmptyStore == [hits |-> [k \in Clients |-> 0], resetTime |-> [k \in Clients |-> 0]]

\* store.increment(key): a key whose window has run out starts a new window
\* of windowMs; the request is counted.
RLIncrement(st, key, t) ==
    IF st.resetTime[key] <= t
    THEN [hits |-> [st.hits EXCEPT ![key] = 1],
          resetTime |-> [st.resetTime EXCEPT ![key] = t + RateWindow]]
    ELSE [st EXCEPT !.hits[key] = @ + 1]

\* The limiter's handler: 429 with the configured message.
TooMany(code) == [status |-> 429, code |-> code]
\* next(): the request goes on to its route.
PassedOn == [status |-> 0, code |-> ""]

\* Nothing has been requested yet.  api and scan are the stores of the two
\* limiters, n counts the requests, resp is the limiter's answer to the last
\* one, passed counts for each client and route the requests that reached
\* the route at the moment at.
IdleLimiter ==
    [api |-> EmptyStore, scan |-> EmptyStore, n |-> 0, resp |-> PassedOn,
     passed |-> [ip \in Clients |-> [rt \in ApiRoutes |-> [at |-> 0, count |-> 0]]]]

---------------------------------------------------------------------------
(* server.js: state after the module has been loaded *)

\* A faulty degraded-mode check that takes storageService for loaded:
\* C14_DegradedMode must not survive it.
StorageAssumed == TRUE

\* The require block loads vertexAIService, firestoreService, storageService,
\* cacheService, translationService in this order inside one try: a failing
\* require leaves the later ones undefined.
HasVertexAI  == loaded >= 1
HasFirestore == loaded >= 2
HasStorage   == loaded >= 3
HasCache     == loaded >= 4

\* A JavaScript value of req.body: a string (s: its content) or anything else.
JsStr(s) == [isString |-> TRUE, s |-> s]
NoImage == [isString |-> FALSE, s |-> EmptyStr]
NoSession == [isString |-> FALSE, s |-> ""]

ScanBodies ==
    {[image |-> JsStr(i), sessionId |-> JsStr(s)] : i \in Images, s \in Sessions}
    \cup {[image |-> NoImage, sessionId |-> JsStr("S1")],
          [image |-> JsStr(EmptyStr), sessionId |-> JsStr("S1")],
          [image |-> JsStr(Str(<<65, 66>>, 0)), sessionId |-> NoSession],
          [image |-> JsStr(Str(<<65, 66>>, 0)), sessionId |-> JsStr("")]}

NoMonster == [id |-> "", analysis |-> <<>>, imageUrl |-> <<>>, rawScanUrl |-> <<>>]
NoVisual == [dataUri |-> <<>>, raw |-> <<>>]
\* A response; at is the time a 200 was sent.
NoResp == [status |-> 0, code |-> "", cached |-> FALSE, monster |-> NoMonster,
           error |-> NoError, at |-> 0]

\* The handler's locals; calls records the collaborator functions the request
\* has called so far, log the events server.js has logged for the request
\* (the services' own log lines are left out), token the local of the
\* reCAPTCHA block.
IdleScan == [pc |-> "idle", image |-> EmptyStr, sessionId |-> "",
             rt |-> IdleRetry, rawScanUrl |-> <<"null">>, analysis |-> <<>>,
             visual |-> NoVisual, imageUrl |-> <<>>, monster |-> NoMonster,
             exists |-> FALSE, calls |-> {}, log |-> <<>>, token |-> "undefined"]

\* cloudLogger.log(severity, message, context) called for the request rec.
Logged(rec, severity, message) ==
    [rec EXCEPT !.log = Append(@, <<severity, message>>)]

\* Player names are sequences of character codes; this one is "Anonymous".
Anonymous == <<65, 110, 111, 110, 121, 109, 111, 117, 115>>
NoSessionDoc == [exists |-> FALSE, monsterCount |-> 0, playerName |-> <<>>]

NoCollResp == [status |-> 0, code |-> "", cached |-> FALSE, monsters |-> {}]
\* seen records, at arrival, the monsters of the scans of this session that had
\* been answered with cached:false already.
IdleColl == [pc |-> "idle", sessionId |-> "", monsters |-> {}, seen |-> {}]

\* The handler's locals (name is the sanitized name, exists what
\* ensureSession read) and the response, status 0 while there is none.
IdlePlayer == [pc |-> "idle", sessionId |-> "", name |-> <<>>, exists |-> FALSE,
               status |-> 0, code |-> ""]

\* No cacheService function has been called directly yet.  n counts the
\* calls.  scanAt and collAt say what the caches are expected to remember:
\* for each key set and not invalidated or flushed since, the value and time
\* of its latest set.  keyOf gives the key first computed for an image.
IdleCs == [op |-> "none", key |-> <<>>, val |-> <<>>, threw |-> FALSE,
           found |-> FALSE, ret |-> <<>>, n |-> 0, age |-> "never", size |-> 0,
           isNew |-> FALSE,
           scanAt |-> [k \in {} |-> 0], collAt |-> [k \in {} |-> 0],
           keyOf |-> [i \in {} |-> <<>>]]

Init ==
    /\ loaded \in 0..4
    /\ now = 0
    /\ scanCache = EmptyCache
    /\ collCache = EmptyCache
    /\ sessionsDb = [s \in Sessions |-> NoSessionDoc]
    /\ monstersDb = [s \in Sessions |-> [x \in {} |-> NoMonster]]
    /\ analytics = [totalMonsters |-> 0, totalScans |-> 0]
    /\ scan = [r \in ScanReqs |-> IdleScan]
    /\ scanResp = [r \in ScanReqs |-> NoResp]
    /\ coll = [g \in CollReqs |-> IdleColl]
    /\ collResp = [g \in CollReqs |-> NoCollResp]
    /\ rp = [rt |-> IdleRetry, n |-> 0, k |-> 0, d |-> 0]
    /\ cs = IdleCs
    /\ limiter = IdleLimiter
    /\ player = IdlePlayer

---------------------------------------------------------------------------
(* server.js: POST /api/scan *)

dbVars == <<sessionsDb, monstersDb, analytics>>
collVars == <<coll, collResp>>

Respond(r, resp) == scanResp' = [scanResp EXCEPT ![r] = resp]

\* res.json({ monster, cached })
Ok(monster, cached) ==
    [status |-> 200, code |-> "OK", cached |-> cached, monster |-> monster,
     error |-> NoError, at |-> now]

\* res.status(status).json({ error, code })
Reject(status, code) ==
    [status |-> status, code |-> code, cached |-> FALSE, monster |-> NoMonster,
     error |-> NoError, at |-> 0]

\* A faulty failure body that also carries the assembled monster:
\* C8_SaveFailureLosesResult must not survive it.
FailureBodyWithMonster(rec, err) ==
    [Reject(500, "PIPELINE_ERROR") EXCEPT !.error = err, !.monster = rec.monster]

\* The body of the catch block's response: 500 PIPELINE_ERROR with the error.
FailureBody(rec, err) == [Reject(500, "PIPELINE_ERROR") EXCEPT !.error = err]

\* A faulty catch block that swallows the error and goes on with stage 4:
\* C7_FatalStages must not survive it.
PipelineSwallow(r, rec, err) ==
    /\ scan' = [scan EXCEPT ![r] = [rec EXCEPT !.pc = "assetSave", !.rt = IdleRetry]]
    /\ UNCHANGED scanResp

\* A faulty catch block that logs the error and sends nothing:
\* C28_ExactlyOneResponse must not survive it.
PipelineFailureSilent(r, rec, err) ==
    /\ scan' = [scan EXCEPT ![r] =
          [Logged(rec, "ERROR", "Scan pipeline failure") EXCEPT
              !.pc = "done", !.rt = IdleRetry]]
    /\ UNCHANGED scanResp

\* The handler's catch block: the error is logged, then sent.
PipelineFailure(r, rec, err) ==
    /\ scan' = [scan EXCEPT ![r] =
          [Logged(rec, "ERROR", "Scan pipeline failure") EXCEPT
              !.pc = "done", !.rt = IdleRetry]]
    /\ Respond(r, FailureBody(rec, err))

\* What the handler does with a validated request: the scan-cache check, the
\* degraded-mode check, then stage 1 up to its await of uploadRawScan.
CheckCacheAndStart(r, rec) ==
    LET got == getCachedScan(rec.image)
    IN  IF HasCache /\ got.found
        THEN /\ scanCache' = got.cache
             /\ Respond(r, Ok(got.v, TRUE))
             /\ scan' = [scan EXCEPT ![r] =
                   [Logged(rec, "INFO", "Scan cache hit") EXCEPT !.pc = "done"]]
        ELSE /\ scanCache' = IF HasCache THEN got.cache ELSE scanCache
             /\ IF ~HasVertexAI \/ ~HasFirestore \/ ~HasStorage
                THEN /\ Respond(r, Reject(503, "SERVICES_UNAVAILABLE"))
                     /\ scan' = [scan EXCEPT ![r] =
                           [Logged(rec, "WARNING", "Running in degraded mode")
                               EXCEPT !.pc = "done"]]
                ELSE /\ scan' = [scan EXCEPT ![r] =
                           [rec EXCEPT !.pc = "staging",
                                       !.calls = @ \cup {"uploadRawScan"}]]
                     /\ UNCHANGED scanResp

\* The size in bytes of the smallest JSON text that carries the body's string
\* fields: {"image":"...","sessionId":"..."} with ASCII contents (base64 and
\* session ids need no escapes); a field that is no string is left out.
BodyBytes(body) ==
    LET img == IF body.image.isString THEN 10 + StrLen(body.image.s) ELSE 0
        sid == IF body.sessionId.isString THEN 14 + Len(body.sessionId.s) ELSE 0
        comma == IF body.image.isString /\ body.sessionId.isString THEN 1 ELSE 0
        tok == IF "recaptchaToken" \in DOMAIN body
               THEN 20 + Len(body.recaptchaToken) ELSE 0
    IN  2 + img + comma + sid + tok

\* errorHandler's answer to an error that is no AppError, such as the
\* PayloadTooLargeError of the body parser.
InternalError == Reject(500, "INTERNAL_ERROR")

\* req.body.recaptchaToken: undefined when the body has no such field.
TokenOf(body) ==
    IF "recaptchaToken" \in DOMAIN body THEN body.recaptchaToken ELSE "undefined"
\* JavaScript truthiness of a token: neither undefined nor the empty string.
Truthy(token) == token \notin {"undefined", ""}

\* The reCAPTCHA block of the handler, entered when recaptcha.js is loaded
\* (it is part of the repository) and RECAPTCHA_SECRET_KEY is set: it reads
\* the token and logs that there is one.  Nothing is verified.
RecaptchaBlock(rec, body, secretKey) ==
    IF ~secretKey THEN rec
    ELSE IF Truthy(TokenOf(body))
    THEN [Logged(rec, "INFO", "reCAPTCHA token present on scan request") EXCEPT
             !.token = TokenOf(body)]
    ELSE [rec EXCEPT !.token = TokenOf(body)]

\* A request arrives while process.env.RECAPTCHA_SECRET_KEY is set
\* (secretKey) or not.  express.json reads the body: one larger than its
\* limit is passed as an error to errorHandler and never reaches the route.
\* Otherwise the handler runs from its first line to its first await
\* (uploadRawScan) or to a response.
ScanArriveEnv(r, body, secretKey) ==
    /\ scan[r].pc = "idle"
    /\ LET image == body.image
           sessionId == body.sessionId
       IN  IF BodyBytes(body) > ParserLimit
           THEN /\ Respond(r, InternalError)
                /\ scan' = [scan EXCEPT ![r] =
                      [Logged(@, "console.error", "Unhandled error") EXCEPT
                          !.pc = "done"]]
                /\ UNCHANGED scanCache
           ELSE IF ~(image.isString /\ StrLen(image.s) # 0)
           THEN /\ Respond(r, Reject(400, "INVALID_INPUT"))
                /\ scan' = [scan EXCEPT ![r] = [@ EXCEPT !.pc = "done"]]
                /\ UNCHANGED scanCache
           ELSE IF ~(sessionId.isString /\ sessionId.s # "")
           THEN /\ Respond(r, Reject(400, "INVALID_SESSION"))
                /\ scan' = [scan EXCEPT ![r] = [@ EXCEPT !.pc = "done"]]
                /\ UNCHANGED scanCache
           ELSE IF StrLen(image.s) > MaxImageLen
           THEN /\ Respond(r, Reject(413, "PAYLOAD_TOO_LARGE"))
                /\ scan' = [scan EXCEPT ![r] = [@ EXCEPT !.pc = "done"]]
                /\ UNCHANGED scanCache
           ELSE CheckCacheAndStart(r,
                    RecaptchaBlock([scan[r] EXCEPT !.image = image.s,
                                                   !.sessionId = sessionId.s],
                                   body, secretKey))
    /\ UNCHANGED <<loaded, now, collCache, dbVars, collVars, rp, cs, limiter, player>>

\* A request arrives, whatever the environment.
ScanArrive(r, body) == \E secretKey \in BOOLEAN : ScanArriveEnv(r, body, secretKey)

\* A faulty stage 1 that goes on to generateMonsterVisual without analysing:
\* C13_StageOrder must not survive it.
StagingDoneSkip(r, ok) ==
    /\ scan[r].pc = "staging"
    /\ scan' = [scan EXCEPT ![r] =
          [@ EXCEPT !.pc = "synth",
                    !.rawScanUrl = IF ok THEN <<"gs://raw", r>> ELSE <<"null">>,
                    !.calls = @ \cup {"generateMonsterVisual"},
                    !.rt = RetryEnter(IdleRetry, DefaultRetries, DefaultDelay)]]
    /\ UNCHANGED <<loaded, now, scanCache, collCache, dbVars, scanResp, collVars, rp, cs, limiter, player>>

\* Stage 1: uploadRawScan settles (a rejection is logged and swallowed); stage 2
\* starts: analyzeImage enters retry with the default arguments.
StagingDone(r, ok) ==
    /\ scan[r].pc = "staging"
    /\ scan' = [scan EXCEPT ![r] =
          [(IF ok THEN Logged(@, "INFO", "Raw scan staged to GCS")
            ELSE Logged(@, "WARNING", "Raw scan upload failed (non-fatal)"))
           EXCEPT !.pc = "analyzing",
                    !.rawScanUrl = IF ok THEN <<"gs://raw", r>> ELSE <<"null">>,
                    !.calls = @ \cup {"analyzeImage"},
                    !.rt = RetryEnter(IdleRetry, DefaultRetries, DefaultDelay)]]
    /\ UNCHANGED <<loaded, now, scanCache, collCache, dbVars, scanResp, collVars, rp, cs, limiter, player>>

\* Stage 2: one invocation of the analysis' fn settles.  On success stage 3
\* starts: generateMonsterVisual enters retry.  A failure goes through retry's
\* catch: rethrown to the handler's catch block when no retries are left.
AnalyzeSettle(r, ok) ==
    /\ scan[r].pc = "analyzing"
    /\ LET rec == scan[r]
           failed == RetryCatch(rec.rt, <<"analyzeImage", rec.rt.calls>>)
       IN  IF ok
           THEN /\ scan' = [scan EXCEPT ![r] =
                      [rec EXCEPT !.pc = "synth",
                                  !.analysis = <<"analysis", rec.image>>,
                                  !.calls = @ \cup {"generateMonsterVisual"},
                                  !.rt = RetryEnter(IdleRetry, DefaultRetries,
                                                    DefaultDelay)]]
                /\ UNCHANGED scanResp
           ELSE IF failed.st = "rejected"
           THEN PipelineFailure(r, rec, failed.error)
           ELSE /\ scan' = [scan EXCEPT ![r] =
                      [rec EXCEPT !.pc = "analyzeSleep", !.rt = failed]]
                /\ UNCHANGED scanResp
    /\ UNCHANGED <<loaded, now, scanCache, collCache, dbVars, collVars, rp, cs, limiter, player>>

\* retry's timer fires: the analysis' fn is invoked again.
AnalyzeWake(r) ==
    /\ scan[r].pc = "analyzeSleep"
    /\ scan' = [scan EXCEPT ![r] = [@ EXCEPT !.pc = "analyzing",
                                              !.rt = RetryWake(@)]]
    /\ UNCHANGED <<loaded, now, scanCache, collCache, dbVars, scanResp, collVars, rp, cs, limiter, player>>

\* Stage 3: one invocation of the synthesis' fn settles.  On success stage 4
\* starts: the monster id is drawn, imageUrl defaults to the data URI and
\* uploadMonsterImage awaits uploadBase64's file.save.
SynthSettle(r, ok) ==
    /\ scan[r].pc = "synth"
    /\ LET rec == scan[r]
           failed == RetryCatch(rec.rt, <<"generateMonsterVisual", rec.rt.calls>>)
           raw == <<"imagen", r>>
           visual == [dataUri |-> <<"data:image/jpeg;base64,">> \o raw, raw |-> raw]
       IN  IF ok
           THEN /\ scan' = [scan EXCEPT ![r] =
                      [rec EXCEPT !.pc = "assetSave",
                                  !.visual = visual,
                                  !.imageUrl = visual.dataUri,
                                  !.calls = @ \cup {"uploadMonsterImage"},
                                  !.rt = IdleRetry]]
                /\ UNCHANGED scanResp
           ELSE IF failed.st = "rejected"
           THEN PipelineFailure(r, rec, failed.error)
           ELSE /\ scan' = [scan EXCEPT ![r] =
                      [rec EXCEPT !.pc = "synthSleep", !.rt = failed]]
                /\ UNCHANGED scanResp
    /\ UNCHANGED <<loaded, now, scanCache, collCache, dbVars, collVars, rp, cs, limiter, player>>

\* retry's timer fires: the synthesis' fn is invoked again.
SynthWake(r) ==
    /\ scan[r].pc = "synthSleep"
    /\ scan' = [scan EXCEPT ![r] = [@ EXCEPT !.pc = "synth", !.rt = RetryWake(@)]]
    /\ UNCHANGED <<loaded, now, scanCache, collCache, dbVars, scanResp, collVars, rp, cs, limiter, player>>

\* The monster document assembled after stage 4; its id m_<time>_<random> is
\* taken to be unique to the request.
Assemble(r, rec, imageUrl) ==
    [id |-> r, analysis |-> rec.analysis, imageUrl |-> imageUrl,
     rawScanUrl |-> rec.rawScanUrl]

\* After stage 4 (either outcome): assemble the monster and start stage 5,
\* saveMonster, which awaits ensureSession's sessionRef.get().
StartSave(r, rec, imageUrl) ==
    [rec EXCEPT !.pc = "ensureGet", !.imageUrl = imageUrl,
                !.monster = Assemble(r, rec, imageUrl),
                !.calls = @ \cup {"saveMonster"}]

\* The catch of stage 4: the failure is logged, imageUrl keeps the data URI.
AssetFallback(r, rec) ==
    StartSave(r, Logged(rec, "WARNING", "Monster image upload failed (non-fatal)"),
              rec.visual.dataUri)

\* Stage 4, uploadBase64's file.save settles: next uploadMonsterImage awaits
\* getSignedUrl; a rejection is caught by the handler (data URI fallback).
AssetSaveSettle(r, ok) ==
    /\ scan[r].pc = "assetSave"
    /\ scan' = [scan EXCEPT ![r] =
          IF ok THEN [@ EXCEPT !.pc = "assetSign"] ELSE AssetFallback(r, @)]
    /\ UNCHANGED <<loaded, now, scanCache, collCache, dbVars, scanResp, collVars, rp, cs, limiter, player>>

\* Stage 4, getSignedUrl settles: imageUrl = uploadResult.publicUrl, or the
\* data URI fallback when it rejects.
AssetSignSettle(r, ok) ==
    /\ scan[r].pc = "assetSign"
    /\ scan' = [scan EXCEPT ![r] =
          IF ok THEN StartSave(r, @, <<"https://signed", r>>)
          ELSE AssetFallback(r, @)]
    /\ UNCHANGED <<loaded, now, scanCache, collCache, dbVars, scanResp, collVars, rp, cs, limiter, player>>


---------------------------------------------------------------------------
(* firestoreService.js: saveMonster, one action per await.  A write takes   *)
(* effect when its promise resolves; a rejected one changes nothing.        *)

\* Any rejection inside saveMonster propagates to the handler's catch block.
SaveFailure(r, step) == PipelineFailure(r, scan[r], <<"firestore", step>>)

\* ensureSession: sessionRef.get() settles.
EnsureGetSettle(r, ok) ==
    /\ scan[r].pc = "ensureGet"
    /\ IF ok
       THEN /\ scan' = [scan EXCEPT ![r] =
                  [@ EXCEPT !.pc = "ensureWrite",
                            !.exists = sessionsDb[scan[r].sessionId].exists]]
            /\ UNCHANGED scanResp
       ELSE SaveFailure(r, "get")
    /\ UNCHANGED <<loaded, now, scanCache, collCache, dbVars, collVars, rp, cs, limiter, player>>

NewSessionDoc == [exists |-> TRUE, monsterCount |-> 0, playerName |-> Anonymous]

\* ensureSession: sessionRef.set({... monsterCount: 0 ...}) when the document
\* did not exist, else sessionRef.update({ lastActive }), settles.
EnsureWriteSettle(r, ok) ==
    /\ scan[r].pc = "ensureWrite"
    /\ IF ok
       THEN /\ scan' = [scan EXCEPT ![r] = [@ EXCEPT !.pc = "monsterSet"]]
            /\ sessionsDb' = IF scan[r].exists THEN sessionsDb
                             ELSE [sessionsDb EXCEPT ![scan[r].sessionId] =
                                      NewSessionDoc]
            /\ UNCHANGED scanResp
       ELSE /\ SaveFailure(r, "ensure")
            /\ UNCHANGED sessionsDb
    /\ UNCHANGED <<loaded, now, scanCache, collCache, monstersDb, analytics,
                   collVars, rp, cs, limiter, player>>

\* monsterRef.set({ ...monster }) settles.
MonsterSetSettle(r, ok) ==
    /\ scan[r].pc = "monsterSet"
    /\ IF ok
       THEN /\ scan' = [scan EXCEPT ![r] = [@ EXCEPT !.pc = "countUpdate"]]
            /\ monstersDb' = [monstersDb EXCEPT ![scan[r].sessionId] =
                                 Put(@, scan[r].monster.id, scan[r].monster)]
            /\ UNCHANGED scanResp
       ELSE /\ SaveFailure(r, "monster")
            /\ UNCHANGED monstersDb
    /\ UNCHANGED <<loaded, now, scanCache, collCache, sessionsDb, analytics,
                   collVars, rp, cs, limiter, player>>

\* sessionRef.update({ monsterCount: increment(1) }) settles.
CountUpdateSettle(r, ok) ==
    /\ scan[r].pc = "countUpdate"
    /\ IF ok
       THEN /\ scan' = [scan EXCEPT ![r] = [@ EXCEPT !.pc = "statsSet"]]
            /\ sessionsDb' = [sessionsDb EXCEPT
                                 ![scan[r].sessionId].monsterCount = @ + 1]
            /\ UNCHANGED scanResp
       ELSE /\ SaveFailure(r, "count")
            /\ UNCHANGED sessionsDb
    /\ UNCHANGED <<loaded, now, scanCache, collCache, monstersDb, analytics,
                   collVars, rp, cs, limiter, player>>

\* server.js after `await saveMonster`: setCachedScan and invalidateCollection
\* when cacheService is loaded, then the completion is logged and
\* res.json({ monster, cached: false }) sent.  An exception of setCachedScan
\* reaches the catch block.
CacheUpdateAndRespond(r) ==
    LET rec == scan[r]
        put == setCachedScan(rec.image, rec.monster)
    IN  IF ~HasCache
        THEN /\ scan' = [scan EXCEPT ![r] =
                   [Logged(rec, "INFO", "Scan pipeline complete") EXCEPT
                       !.pc = "done"]]
             /\ Respond(r, Ok(rec.monster, FALSE))
             /\ UNCHANGED <<scanCache, collCache>>
        ELSE IF ~put.ok
        THEN /\ PipelineFailure(r, rec, <<"ECACHEFULL">>)
             /\ UNCHANGED <<scanCache, collCache>>
        ELSE /\ scanCache' = put.cache
             /\ collCache' = invalidateCollection(rec.sessionId)
             /\ scan' = [scan EXCEPT ![r] =
                   [Logged(rec, "INFO", "Scan pipeline complete") EXCEPT
                       !.pc = "done"]]
             /\ Respond(r, Ok(rec.monster, FALSE))

\* statsRef.set({ totalMonsters: increment(1), ... }, { merge: true }) settles;
\* saveMonster returns and the handler runs to its response.
StatsSetSettle(r, ok) ==
    /\ scan[r].pc = "statsSet"
    /\ IF ok
       THEN /\ analytics' = [totalMonsters |-> analytics.totalMonsters + 1,
                             totalScans |-> analytics.totalScans + 1]
            /\ CacheUpdateAndRespond(r)
       ELSE /\ SaveFailure(r, "stats")
            /\ UNCHANGED <<analytics, scanCache, collCache>>
    /\ UNCHANGED <<loaded, now, sessionsDb, monstersDb, collVars, rp, cs, limiter, player>>

---------------------------------------------------------------------------
(* server.js: GET /api/collection/:sessionId *)

CollRespond(g, status, code, cached, monsters) ==
    collResp' = [collResp EXCEPT ![g] =
        [status |-> status, code |-> code, cached |-> cached, monsters |-> monsters]]

\* The monsters of the scans of sessionId already answered with cached:false.
ScannedFor(sessionId) ==
    {scanResp[r].monster : r \in {x \in ScanReqs :
        /\ scanResp[x].status = 200
        /\ ~scanResp[x].cached
        /\ scan[x].sessionId = sessionId}}

\* A read arrives: the collection-cache check (any cached array is truthy),
\* the Firestore check, then the await of getCollection.
CollArrive(g, sessionId) ==
    /\ coll[g].pc = "idle"
    /\ LET got == getCachedCollection(sessionId)
           rec == [coll[g] EXCEPT !.sessionId = sessionId,
                                  !.seen = ScannedFor(sessionId)]
       IN  IF HasCache /\ got.found
           THEN /\ collCache' = got.cache
                /\ coll' = [coll EXCEPT ![g] = [rec EXCEPT !.pc = "done"]]
                /\ CollRespond(g, 200, "OK", TRUE, got.v)
           ELSE /\ collCache' = IF HasCache THEN got.cache ELSE collCache
                /\ IF ~HasFirestore
                   THEN /\ coll' = [coll EXCEPT ![g] = [rec EXCEPT !.pc = "done"]]
                        /\ CollRespond(g, 503, "SERVICES_UNAVAILABLE", FALSE, {})
                   ELSE /\ coll' = [coll EXCEPT ![g] = [rec EXCEPT !.pc = "query"]]
                        /\ UNCHANGED collResp
    /\ UNCHANGED <<loaded, now, scanCache, dbVars, scan, scanResp, rp, cs, limiter, player>>

\* firestoreService.getCollection: the query runs against the subcollection
\* as it is at this moment, or rejects.
CollQuery(g, ok) ==
    /\ coll[g].pc = "query"
    /\ LET docs == monstersDb[coll[g].sessionId]
       IN  IF ok
           THEN /\ coll' = [coll EXCEPT ![g] =
                      [@ EXCEPT !.pc = "fetched",
                                !.monsters = {docs[i] : i \in DOMAIN docs}]]
                /\ UNCHANGED collResp
           ELSE /\ coll' = [coll EXCEPT ![g] = [@ EXCEPT !.pc = "done"]]
                /\ CollRespond(g, 500, "COLLECTION_ERROR", FALSE, {})
    /\ UNCHANGED <<loaded, now, scanCache, collCache, dbVars, scan, scanResp, rp, cs, limiter, player>>

\* The handler resumes with the snapshot: setCachedCollection when cacheService
\* is loaded (an exception reaches the catch block), then the response.
CollFetched(g) ==
    /\ coll[g].pc = "fetched"
    /\ LET rec == coll[g]
           put == setCachedCollection(rec.sessionId, rec.monsters)
       IN  /\ coll' = [coll EXCEPT ![g] = [rec EXCEPT !.pc = "done"]]
           /\ IF HasCache /\ ~put.ok
              THEN /\ CollRespond(g, 500, "COLLECTION_ERROR", FALSE, {})
                   /\ UNCHANGED collCache
              ELSE /\ collCache' = IF HasCache THEN put.cache ELSE collCache
                   /\ CollRespond(g, 200, "OK", FALSE, rec.monsters)
    /\ UNCHANGED <<loaded, now, scanCache, dbVars, scan, scanResp, rp, cs, limiter, player>>

---------------------------------------------------------------------------
(* server.js: POST /api/player, with firestoreService.setPlayerName one     *)
(* action per await.  Names are sequences of character codes.               *)

\* String.prototype.trim(): white space (here the blank, 32) is removed from
\* both ends.
RECURSIVE TrimLeft(_)
TrimLeft(str) == IF str # <<>> /\ str[1] = 32 THEN TrimLeft(Tail(str)) ELSE str
RECURSIVE TrimRight(_)
TrimRight(str) ==
    IF str # <<>> /\ str[Len(str)] = 32
    THEN TrimRight(SubSeq(str, 1, Len(str) - 1)) ELSE str
Trim(str) == TrimRight(TrimLeft(str))

\* name.trim().substring(0, 20)
SanitizedName(name) == SubSeq(Trim(name), 1, Min(20, Len(Trim(name))))

\* Names a client may send: "Ash", " Ash ", blanks only, 21 times "A"; and a
\* body without a name.
NoName == [isString |-> FALSE, s |-> <<>>]
PlayerNames ==
    {<<65, 115, 104>>, <<32, 65, 115, 104, 32>>, <<32, 32>>, [i \in 1..21 |-> 65]}
PlayerBodies ==
    {[sessionId |-> JsStr(s), name |-> JsStr(n)] : s \in Sessions, n \in PlayerNames}
    \cup {[sessionId |-> JsStr("S1"), name |-> NoName],
          [sessionId |-> NoSession, name |-> JsStr(<<65, 115, 104>>)]}

PlayerRespond(rec, status, code) ==
    player' = [rec EXCEPT !.pc = "done", !.status = status, !.code = code]

\* The handler's catch block.
PlayerFailure == PlayerRespond(player, 500, "PLAYER_ERROR")

\* A request arrives: validation, the Firestore check, then setPlayerName up
\* to the await of ensureSession's sessionRef.get().
PlayerArrive(body) ==
    /\ player.pc = "idle"
    /\ IF \/ ~(body.sessionId.isString /\ body.sessionId.s # "")
          \/ ~(body.name.isString /\ body.name.s # <<>>)
       THEN PlayerRespond(player, 400, "INVALID_INPUT")
       ELSE IF SanitizedName(body.name.s) = <<>>
       THEN PlayerRespond(player, 400, "INVALID_INPUT")
       ELSE IF ~HasFirestore
       THEN PlayerRespond(player, 503, "SERVICES_UNAVAILABLE")
       ELSE player' = [player EXCEPT !.pc = "ensureGet",
                                     !.sessionId = body.sessionId.s,
                                     !.name = SanitizedName(body.name.s)]
    /\ UNCHANGED <<loaded, now, scanCache, collCache, dbVars, scan, scanResp, collVars, rp, cs, limiter>>

\* ensureSession: sessionRef.get() settles.
PlayerGetSettle(ok) ==
    /\ player.pc = "ensureGet"
    /\ IF ok
       THEN player' = [player EXCEPT !.pc = "ensureWrite",
                                     !.exists = sessionsDb[player.sessionId].exists]
       ELSE PlayerFailure
    /\ UNCHANGED <<loaded, now, scanCache, collCache, dbVars, scan, scanResp, collVars, rp, cs, limiter>>

\* ensureSession: sessionRef.set({... monsterCount: 0, playerName: 'Anonymous'})
\* when the document did not exist, else sessionRef.update({ lastActive }),
\* settles.
PlayerEnsureWriteSettle(ok) ==
    /\ player.pc = "ensureWrite"
    /\ IF ok
       THEN /\ player' = [player EXCEPT !.pc = "nameUpdate"]
            /\ sessionsDb' = IF player.exists THEN sessionsDb
                             ELSE [sessionsDb EXCEPT ![player.sessionId] = NewSessionDoc]
       ELSE /\ PlayerFailure
            /\ UNCHANGED sessionsDb
    /\ UNCHANGED <<loaded, now, scanCache, collCache, monstersDb, analytics, scan, scanResp, collVars, rp, cs, limiter>>

\* sessionRef.update({ playerName: name }) settles; the handler answers.
PlayerUpdateSettle(ok) ==
    /\ player.pc = "nameUpdate"
    /\ IF ok
       THEN /\ PlayerRespond(player, 200, "OK")
            /\ sessionsDb' = [sessionsDb EXCEPT ![player.sessionId].playerName =
                                 player.name]
       ELSE /\ PlayerFailure
            /\ UNCHANGED sessionsDb
    /\ UNCHANGED <<loaded, now, scanCache, collCache, monstersDb, analytics, scan, scanResp, collVars, rp, cs, limiter>>

\* Every step the player request can take.
PlayerStep ==
    \/ \E body \in PlayerBodies : PlayerArrive(body)
    \/ \E ok \in BOOLEAN : PlayerGetSettle(ok)
    \/ \E ok \in BOOLEAN : PlayerEnsureWriteSettle(ok)
    \/ \E ok \in BOOLEAN : PlayerUpdateSettle(ok)

---------------------------------------------------------------------------
(* Time and node-cache's periodic sweeps *)

Tick ==
    /\ now < TickSecs * MaxTicks
    /\ now' = now + TickSecs
    /\ UNCHANGED <<loaded, scanCache, collCache, dbVars, scan, scanResp, collVars, rp, cs, limiter, player>>

\* scanCache's checkperiod timer fires.
ScanCheckData ==
    /\ HasCache
    /\ scanCache' = NCCheckData(scanCache, now)
    /\ scanCache' # scanCache
    /\ UNCHANGED <<loaded, now, collCache, dbVars, scan, scanResp, collVars, rp, cs, limiter, player>>

\* collectionCache's checkperiod timer fires.
CollCheckData ==
    /\ HasCache
    /\ collCache' = NCCheckData(collCache, now)
    /\ collCache' # collCache
    /\ UNCHANGED <<loaded, now, scanCache, dbVars, scan, scanResp, collVars, rp, cs, limiter, player>>

\* Every step a scan request can take after its arrival.
ScanProgress(r) ==
    \/ \E ok \in BOOLEAN : StagingDone(r, ok)
    \/ \E ok \in BOOLEAN : AnalyzeSettle(r, ok)
    \/ AnalyzeWake(r)
    \/ \E ok \in BOOLEAN : SynthSettle(r, ok)
    \/ SynthWake(r)
    \/ \E ok \in BOOLEAN : AssetSaveSettle(r, ok)
    \/ \E ok \in BOOLEAN : AssetSignSettle(r, ok)
    \/ \E ok \in BOOLEAN : EnsureGetSettle(r, ok)
    \/ \E ok \in BOOLEAN : EnsureWriteSettle(r, ok)
    \/ \E ok \in BOOLEAN : MonsterSetSettle(r, ok)
    \/ \E ok \in BOOLEAN : CountUpdateSettle(r, ok)
    \/ \E ok \in BOOLEAN : StatsSetSettle(r, ok)

\* Every step a scan request can take.
ScanStep(r) ==
    \/ \E body \in ScanBodies : ScanArrive(r, body)
    \/ ScanProgress(r)

\* Every step a collection read can take.
CollStep(g) ==
    \/ \E s \in Sessions : CollArrive(g, s)
    \/ \E ok \in BOOLEAN : CollQuery(g, ok)
    \/ CollFetched(g)

\* The server under scan requests only.
Next ==
    \/ \E r \in ScanReqs : ScanStep(r)
    \/ Tick
    \/ ScanCheckData

Spec == Init /\ [][Next]_vars

\* Bodies whose image is as long as the limits: the longest image whose body
\* the parser accepts and the one a character longer, the image of exactly
\* MaxImageLen characters and the one a character longer.
BigImages ==
    {Str(<<65, 66>>, n - 2) :
        n \in {ParserLimit - BodyBytes([image |-> JsStr(EmptyStr),
                                        sessionId |-> JsStr("S1")]),
               ParserLimit - BodyBytes([image |-> JsStr(EmptyStr),
                                        sessionId |-> JsStr("S1")]) + 1,
               MaxImageLen,
               MaxImageLen + 1}}
SizeBodies ==
    ScanBodies \cup {[image |-> JsStr(i), sessionId |-> JsStr("S1")] : i \in BigImages}

\* The server under one scan request of any size.
NextSize ==
    \/ \E body \in SizeBodies : ScanArrive("q1", body)
    \/ ScanProgress("q1")

SpecSize == Init /\ [][NextSize]_vars

\* The server under two scan requests of one session, among them one whose
\* body the parser refuses, when every pending call settles and every timer
\* fires at last.
LiveBodies ==
    {body \in ScanBodies : body.sessionId # JsStr("S2")}
    \cup {[image |-> JsStr(Str(<<65, 66>>, MaxImageLen)), sessionId |-> JsStr("S1")]}
NextLive ==
    \/ \E r \in ScanReqs, body \in LiveBodies : ScanArrive(r, body)
    \/ \E r \in ScanReqs : ScanProgress(r)

SpecLive ==
    Init /\ [][NextLive]_vars /\ \A r \in ScanReqs : WF_vars(ScanProgress(r))

\* The server under one scan request and one player request.
NextSession ==
    \/ ScanStep("q1")
    \/ PlayerStep

SpecSession == Init /\ [][NextSession]_vars

\* The server under one scan request and the collection reads.
NextColl ==
    \/ ScanStep("q1")
    \/ \E g \in CollReqs : CollStep(g)
    \/ Tick
    \/ ScanCheckData
    \/ CollCheckData

SpecColl == Init /\ [][NextColl]_vars

---------------------------------------------------------------------------
(* retry on its own: one call retry(fn, n, d) of a function fn whose first  *)
(* k invocations throw and whose later ones resolve.  The error thrown by   *)
(* the i-th invocation is <<"fn", i>>.                                      *)

RetryArgs == 0..MaxRetryArg
Failures == 0..(MaxRetryArg + 1)
Delays == {1, DefaultDelay}

\* The caller calls retry(fn, n, d); d = DefaultDelay and n = DefaultRetries
\* are also what a call without these arguments passes.
RpBegin(n, k, d) ==
    /\ rp.rt.st = "idle"
    /\ rp' = [rt |-> RetryEnter(IdleRetry, n, d), n |-> n, k |-> k, d |-> d]
    /\ UNCHANGED <<loaded, now, scanCache, collCache, dbVars, scan, scanResp, collVars, cs, limiter, player>>

\* The pending invocation of fn settles.
RpSettle ==
    /\ rp.rt.st = "pending"
    /\ rp' = [rp EXCEPT !.rt =
                 IF rp.rt.calls > rp.k THEN RetryResolve(rp.rt)
                 ELSE RetryCatch(rp.rt, <<"fn", rp.rt.calls>>)]
    /\ UNCHANGED <<loaded, now, scanCache, collCache, dbVars, scan, scanResp, collVars, cs, limiter, player>>

\* The backoff timer fires.
RpWake ==
    /\ rp.rt.st = "sleeping"
    /\ rp' = [rp EXCEPT !.rt = RetryWake(rp.rt)]
    /\ UNCHANGED <<loaded, now, scanCache, collCache, dbVars, scan, scanResp, collVars, cs, limiter, player>>

NextRetry ==
    \/ \E n \in RetryArgs, k \in Failures, d \in Delays : RpBegin(n, k, d)
    \/ RpSettle
    \/ RpWake

SpecRetry == Init /\ [][NextRetry]_vars

---------------------------------------------------------------------------
(* cacheService.js called directly, function by function, as its tests do   *)
(* and as any interleaving of handlers may.  Each function is synchronous:  *)
(* one action per call.  cs keeps the call and what it returned or threw.   *)

\* Values to store: monster documents and a collection of them.
CsMonsters == {[NoMonster EXCEPT !.id = r] : r \in ScanReqs}
CsLists == {CsMonsters}

\* The moments the clock is read at: each TTL and the second after it.
CacheClock == {0, CollStdTTL, CollStdTTL + 1, ScanStdTTL, ScanStdTTL + 1}

\* How long ago key was set, going by the record at of the latest sets: never
\* (or not since it was invalidated or flushed), within the TTL, or after it.
Age(at, key, ttl) ==
    IF key \notin DOMAIN at THEN "never"
    ELSE IF now <= at[key].at + ttl THEN "within"
    ELSE "after"

\* What every call records: the function, its key, the age of the key, the
\* number of keys its cache held (stats.keys) and whether the key was new.
Called(op, key, c, age) ==
    [cs EXCEPT !.op = op, !.key = key, !.val = <<>>, !.threw = FALSE,
               !.found = FALSE, !.ret = <<>>, !.n = @ + 1, !.age = age,
               !.size = Cardinality(DOMAIN c.data),
               !.isNew = key \notin DOMAIN c.data]

\* The key and the call's outcome are each computed once (\E over a
\* singleton) and then used as values.
CsSetScan(img, m) ==
    /\ cs.n < MaxCacheOps
    /\ \E key \in {generateScanKey(img)} : \E put \in {setCachedScan(img, m)} :
           /\ scanCache' = put.cache
           /\ cs' = [Called("setCachedScan", key, scanCache,
                               Age(cs.scanAt, key, ScanStdTTL)) EXCEPT
                        !.val = m, !.threw = ~put.ok,
                        !.keyOf = IF img \in DOMAIN @ THEN @ ELSE Put(@, img, key),
                        !.scanAt = IF put.ok THEN Put(@, key, [at |-> now, val |-> m])
                                   ELSE @]
    /\ UNCHANGED <<loaded, now, collCache, dbVars, scan, scanResp, collVars, rp, limiter, player>>

CsGetScan(img) ==
    /\ cs.n < MaxCacheOps
    /\ \E key \in {generateScanKey(img)} : \E got \in {getCachedScan(img)} :
           /\ scanCache' = got.cache
           /\ cs' = [Called("getCachedScan", key, scanCache,
                               Age(cs.scanAt, key, ScanStdTTL)) EXCEPT
                        !.found = got.found,
                        !.ret = IF got.found THEN got.v ELSE <<>>,
                        !.keyOf = IF img \in DOMAIN @ THEN @ ELSE Put(@, img, key)]
    /\ UNCHANGED <<loaded, now, collCache, dbVars, scan, scanResp, collVars, rp, limiter, player>>

CsSetColl(sessionId, monsters) ==
    /\ cs.n < MaxCacheOps
    /\ LET key == collectionKey(sessionId)
           put == setCachedCollection(sessionId, monsters)
       IN  /\ collCache' = put.cache
           /\ cs' = [Called("setCachedCollection", key, collCache,
                               Age(cs.collAt, key, CollStdTTL)) EXCEPT
                        !.val = monsters, !.threw = ~put.ok,
                        !.collAt = IF put.ok
                                   THEN Put(@, key, [at |-> now, val |-> monsters])
                                   ELSE @]
    /\ UNCHANGED <<loaded, now, scanCache, dbVars, scan, scanResp, collVars, rp, limiter, player>>

CsGetColl(sessionId) ==
    /\ cs.n < MaxCacheOps
    /\ LET got == getCachedCollection(sessionId)
       IN  /\ collCache' = got.cache
           /\ cs' = [Called("getCachedCollection", collectionKey(sessionId),
                            collCache,
                            Age(cs.collAt, collectionKey(sessionId), CollStdTTL)) EXCEPT
                        !.found = got.found,
                        !.ret = IF got.found THEN got.v ELSE <<>>]
    /\ UNCHANGED <<loaded, now, scanCache, dbVars, scan, scanResp, collVars, rp, limiter, player>>

CsInvalidate(sessionId) ==
    /\ cs.n < MaxCacheOps
    /\ collCache' = invalidateCollection(sessionId)
    /\ cs' = [Called("invalidateCollection", collectionKey(sessionId), collCache,
                       Age(cs.collAt, collectionKey(sessionId), CollStdTTL))
                EXCEPT !.collAt = Remove(@, collectionKey(sessionId))]
    /\ UNCHANGED <<loaded, now, scanCache, dbVars, scan, scanResp, collVars, rp, limiter, player>>

\* flushAll(): both caches are flushed.
CsFlushAll ==
    /\ cs.n < MaxCacheOps
    /\ scanCache' = NCFlushAll(scanCache)
    /\ collCache' = NCFlushAll(collCache)
    /\ cs' = [Called("flushAll", <<>>, scanCache, "never") EXCEPT
                !.scanAt = IdleCs.scanAt, !.collAt = IdleCs.collAt]
    /\ UNCHANGED <<loaded, now, dbVars, scan, scanResp, collVars, rp, limiter, player>>

\* Time passes.
Advance ==
    /\ \E t \in CacheClock : t > now /\ now' = t
    /\ UNCHANGED <<loaded, scanCache, collCache, dbVars, scan, scanResp, collVars,
                   rp, cs, limiter, player>>

NextCache ==
    \/ \E img \in Images, m \in CsMonsters : CsSetScan(img, m)
    \/ \E img \in Images : CsGetScan(img)
    \/ \E s \in Sessions, l \in CsLists : CsSetColl(s, l)
    \/ \E s \in Sessions : CsGetColl(s)
    \/ \E s \in Sessions : CsInvalidate(s)
    \/ CsFlushAll
    \/ Advance
    \/ ScanCheckData
    \/ CollCheckData

\* cacheService has been loaded.
InitCache == Init /\ loaded = 4

SpecCache == InitCache /\ [][NextCache]_vars

\* Images longer than the four windows together.  Plain is 400 times "A";
\* OffWindow differs from it in character 71, which no window covers;
\* Longer has 404 characters and differs in character 71 too; InWindow
\* differs in character 1.
TwinImages ==
    {Str(<<>>, 400),
     Str([i \in 1..71 |-> IF i = 71 THEN 66 ELSE 65], 329),
     Str([i \in 1..71 |-> IF i = 71 THEN 66 ELSE 65], 333),
     Str(<<66>>, 399)}
TwinBodies == {[image |-> JsStr(i), sessionId |-> JsStr("S1")] : i \in TwinImages}

\* The server under two scans of such images, the second sent when the first
\* has been answered.
NextTwin ==
    \/ \E body \in TwinBodies : ScanArrive("q1", body)
    \/ ScanProgress("q1")
    \/ scan["q1"].pc = "done" /\ \E body \in TwinBodies : ScanArrive("q2", body)
    \/ ScanProgress("q2")
    \/ Tick
    \/ ScanCheckData

SpecTwin == InitCache /\ [][NextTwin]_vars

---------------------------------------------------------------------------
(* server.js: the middleware in front of the routes under /api/.  The only  *)
(* limiter the server mounts is apiLimiter, on the prefix /api/; the module *)
(* exports scanLimiter too, but no route uses it.                           *)

\* A request of client ip to a route under /api/ reaches apiLimiter: it is
\* counted under the client's key and answered 429 when the count exceeds
\* max, else passed on to its route (whose handler is ScanArrive or
\* CollArrive).
ApiRequest(ip, route) ==
    /\ limiter.n < MaxApiCalls
    /\ \E st \in {RLIncrement(limiter.api, ip, now)} :
          LET pass == st.hits[ip] <= ApiMax
              was == limiter.passed[ip][route]
          IN  limiter' =
                [limiter EXCEPT
                    !.api = st,
                    !.n = @ + 1,
                    !.resp = IF pass THEN PassedOn ELSE TooMany("RATE_LIMIT_EXCEEDED"),
                    !.passed[ip][route] =
                        IF ~pass THEN was
                        ELSE IF was.at = now /\ was.count > 0
                        THEN [was EXCEPT !.count = @ + 1]
                        ELSE [at |-> now, count |-> 1]]
    /\ UNCHANGED <<loaded, now, scanCache, collCache, dbVars, scan, scanResp, collVars, rp, cs, player>>

NextLimit ==
    \/ \E ip \in Clients, route \in ApiRoutes : ApiRequest(ip, route)
    \/ Tick

SpecLimit == InitCache /\ [][NextLimit]_vars

---------------------------------------------------------------------------
(* middleware/recaptcha.js: verifyRecaptcha, the middleware the module       *)
(* exports.  server.js mounts it on no route.                                *)

\* Tokens a client may send and what siteverify answers for each: one that
\* fails verification, and ones with a score of 0.3, 0.5 and 0.9.
Tokens == {"t-failed", "t-low", "t-edge", "t-human"}
Siteverify(token) ==
    CASE token = "t-low" -> [success |-> TRUE, score |-> 3]
      [] token = "t-edge" -> [success |-> TRUE, score |-> MinScore]
      [] token = "t-human" -> [success |-> TRUE, score |-> 9]
      [] OTHER -> [success |-> FALSE, score |-> 0]

\* verifyRecaptcha(req, res, next) with the secret configured or not and the
\* verification service reachable or not: the response it sends, or NoResp
\* when it calls next().
verifyRecaptcha(secretKey, body, reachable) ==
    IF ~secretKey THEN NoResp
    ELSE IF ~Truthy(TokenOf(body)) THEN Reject(400, "RECAPTCHA_MISSING")
    ELSE IF ~reachable THEN NoResp
    ELSE IF ~Siteverify(TokenOf(body)).success THEN Reject(403, "RECAPTCHA_FAILED")
    ELSE IF Siteverify(TokenOf(body)).score < MinScore
    THEN Reject(403, "RECAPTCHA_LOW_SCORE")
    ELSE NoResp

\* Bodies with and without a reCAPTCHA token.
CaptchaBodies ==
    ScanBodies
    \cup {[image |-> JsStr(i), sessionId |-> JsStr("S1"), recaptchaToken |-> t] :
             i \in Images, t \in Tokens \cup {""}}

\* The server under one scan request, with and without the secret.
NextCaptcha ==
    \/ \E body \in CaptchaBodies, secretKey \in BOOLEAN :
           ScanArriveEnv("q1", body, secretKey)
    \/ ScanProgress("q1")

SpecCaptcha == Init /\ [][NextCaptcha]_vars

---------------------------------------------------------------------------
(* Properties *)

\* The stage an error response reports: the first component of its error.
ErrorKind(resp) == IF resp.error = NoError THEN "" ELSE resp.error[1]
\* Request r ran the inference pipeline (it got as far as analyzeImage).
Executed(r) == "analyzeImage" \in scan[r].calls
\* Request r was answered 200 with cached:false.
Fresh(r) == scanResp[r].status = 200 /\ ~scanResp[r].cached
\* This step is the arrival of request r.
Arrives(r) == scan[r].pc = "idle" /\ scan'[r].pc # "idle"
\* An answered request takes no further step.
Frozen(r) ==
    scan[r].pc = "done" => scan'[r] = scan[r] /\ scanResp'[r] = scanResp[r]
SameFingerprint(i, j) == generateScanKey(i) = generateScanKey(j)

C2_CacheHit ==
    [][\A r \in ScanReqs :
          /\ (/\ Arrives(r)
              /\ scan'[r].image # EmptyStr
              /\ NCLive(scanCache, generateScanKey(scan'[r].image), now))
             => /\ scanResp'[r] =
                      Ok(scanCache.data[generateScanKey(scan'[r].image)].v, TRUE)
                /\ scan'[r].pc = "done"
                /\ scan'[r].calls = {}
                /\ scanCache'.data = scanCache.data
                /\ collCache' = collCache
                /\ UNCHANGED dbVars
          /\ Frozen(r)]_vars

\* A request has been answered from the scan cache without calling anything.
C2_Witness ==
    \E r \in ScanReqs :
        /\ scanResp[r].status = 200
        /\ scanResp[r].cached
        /\ scanResp[r].monster # NoMonster
        /\ scan[r].calls = {}

\* C3: with cacheService loaded, when a scan request arrives after another
\* request with the byte-identical image was answered with cached:false, and
\* no later than the scan-cache TTL after that answer, it is answered with
\* cached:true and the first request's monster and calls neither analyzeImage
\* nor generateMonsterVisual (nor anything else): the pipeline ran for the
\* first request only.
C3_SequentialDedup ==
    [][\A r1, r2 \in ScanReqs :
          (/\ r1 # r2
           /\ HasCache
           /\ Fresh(r1)
           /\ Arrives(r2)
           /\ scan'[r2].image = scan[r1].image
           /\ now <= scanResp[r1].at + ScanStdTTL)
          => /\ scanResp'[r2] = Ok(scanResp[r1].monster, TRUE)
             /\ scan'[r2].pc = "done"
             /\ scan'[r2].calls = {}
             /\ Executed(r1)]_vars

\* The second of two identical scans was answered from the cache at a later
\* time within the TTL.
C3_Witness ==
    \E r1, r2 \in ScanReqs :
        /\ Fresh(r1)
        /\ scanResp[r2].status = 200
        /\ scanResp[r2].cached
        /\ scanResp[r2].monster = scanResp[r1].monster
        /\ scan[r2].image = scan[r1].image
        /\ scanResp[r2].at > scanResp[r1].at
        /\ ~Executed(r2)

\* C4 as stated: two requests with the same fingerprint never both run the
\* pipeline while the whole history lies within one scan-cache TTL.
C4_OnePipelinePerWindow ==
    \A r1, r2 \in ScanReqs :
        (/\ r1 # r2
         /\ HasCache
         /\ Executed(r1)
         /\ Executed(r2)
         /\ SameFingerprint(scan[r1].image, scan[r2].image))
        => now > ScanStdTTL

\* C4, amended: with cacheService loaded, a request that arrives after a
\* request with the same fingerprint was answered with cached:false, within
\* the TTL of that answer, does not enter the pipeline.  (Requests arriving
\* before the first of them has populated the cache each run it.)
C4_DedupOncePopulated ==
    [][\A r \in ScanReqs :
          (HasCache /\ Arrives(r) /\ scan'[r].pc = "staging")
          => ~\E r1 \in ScanReqs \ {r} :
                 /\ Fresh(r1)
                 /\ SameFingerprint(scan[r1].image, scan'[r].image)
                 /\ now <= scanResp[r1].at + ScanStdTTL]_vars

\* Two requests with the same fingerprint both entered the pipeline with
\* cacheService loaded, and one of them has populated the cache.
C4_Witness ==
    \E r1, r2 \in ScanReqs :
        /\ r1 # r2
        /\ HasCache
        /\ SameFingerprint(scan[r1].image, scan[r2].image)
        /\ Fresh(r1)
        /\ Executed(r2)

\* C5 as stated: an answered request whose staging upload failed and whose
\* analyzeImage, generateMonsterVisual and saveMonster all succeeded was
\* answered 200 with cached:false and a monster whose rawScanUrl is null.
C5_StagingNonFatal ==
    \A r \in ScanReqs :
        (/\ scan[r].pc = "done"
         /\ Executed(r)
         /\ scan[r].rawScanUrl = <<"null">>
         /\ ErrorKind(scanResp[r]) \notin
               {"analyzeImage", "generateMonsterVisual", "firestore"})
        => /\ Fresh(r)
           /\ scanResp[r].monster.rawScanUrl = <<"null">>

\* C6 as stated: an answered request whose uploadMonsterImage failed (the
\* image reference stayed the data URI) and whose saveMonster succeeded was
\* answered 200 with a persisted monster whose imageUrl is the data URI.
C6_AssetFailureTolerated ==
    \A r \in ScanReqs :
        (/\ scan[r].pc = "done"
         /\ "saveMonster" \in scan[r].calls
         /\ scan[r].imageUrl = scan[r].visual.dataUri
         /\ ErrorKind(scanResp[r]) # "firestore")
        => /\ Fresh(r)
           /\ scanResp[r].monster.imageUrl = scan[r].visual.dataUri
           /\ scan[r].monster.id \in DOMAIN monstersDb[scan[r].sessionId]
           /\ monstersDb[scan[r].sessionId][scan[r].monster.id] = scanResp[r].monster

\* C7: when the invocation of analyzeImage's or generateMonsterVisual's fn
\* made with no retries left fails, the request is answered in that step with
\* 500 PIPELINE_ERROR carrying that invocation's error (the fourth), no later
\* stage has been or is called, the step writes neither cache nor the
\* document store, and the request takes no further step.
C7_FatalStages ==
    [][\A r \in ScanReqs :
          LET rec == scan[r]
              failing == /\ rec.rt.retries = 0
                         /\ scan'[r] # rec
                         /\ \/ rec.pc = "analyzing" /\ scan'[r].analysis = <<>>
                            \/ rec.pc = "synth" /\ scan'[r].visual = NoVisual
              stage == IF rec.pc = "analyzing" THEN "analyzeImage"
                       ELSE "generateMonsterVisual"
              later == IF rec.pc = "analyzing"
                       THEN {"generateMonsterVisual", "uploadMonsterImage", "saveMonster"}
                       ELSE {"uploadMonsterImage", "saveMonster"}
          IN  /\ failing =>
                    /\ scan'[r].pc = "done"
                    /\ scanResp'[r].status = 500
                    /\ scanResp'[r].code = "PIPELINE_ERROR"
                    /\ scanResp'[r].error = <<stage, DefaultRetries + 1>>
                    /\ scan'[r].calls \cap later = {}
                    /\ UNCHANGED <<scanCache, collCache, dbVars>>
              /\ Frozen(r)]_vars

\* A request failed with the error of the fourth invocation of the synthesis.
C7_Witness ==
    \E r \in ScanReqs :
        /\ scanResp[r].status = 500
        /\ scanResp[r].error = <<"generateMonsterVisual", 4>>
        /\ scan[r].analysis # <<>>

C9_CachesAtResponse ==
    [][\A r \in ScanReqs :
          (/\ HasCache
           /\ scanResp[r].status = 0
           /\ scanResp'[r].status = 200
           /\ ~scanResp'[r].cached)
          => LET key == generateScanKey(scan[r].image)
                 session == scan[r].sessionId
             IN  /\ scan[r].pc = "statsSet"
                 /\ analytics'.totalMonsters = analytics.totalMonsters + 1
                 /\ scanResp'[r].monster.id \in DOMAIN monstersDb[session]
                 /\ monstersDb[session][scanResp'[r].monster.id] = scanResp'[r].monster
                 /\ NCLive(scanCache', key, now)
                 /\ scanCache'.data[key].v = scanResp'[r].monster
                 /\ \A k \in DOMAIN scanCache.data :
                        scanCache.data[k].v # scanResp'[r].monster
                 /\ collectionKey(session) \notin DOMAIN collCache'.data]_vars

\* A read of the session was answered from the document store (and cached)
\* before the scan was answered, and the session's entry is gone from the
\* collection cache although no time has passed.
C9_Witness ==
    /\ HasCache
    /\ now = 0
    /\ Fresh("q1")
    /\ \E g \in CollReqs :
          /\ collResp[g].status = 200
          /\ ~collResp[g].cached
          /\ coll[g].sessionId = scan["q1"].sessionId
          /\ coll[g].seen = {}
    /\ collectionKey(scan["q1"].sessionId) \notin DOMAIN collCache.data
    /\ collCache.data = <<>>

\* C10 as stated: every read of a session's collection answered with 200
\* returns a list that contains the monsters of all scans of that session that
\* had been answered with cached:false when the read arrived.
C10_ReadsSeeNewMonster ==
    \A g \in CollReqs :
        collResp[g].status = 200 => coll[g].seen \subseteq collResp[g].monsters

---------------------------------------------------------------------------
(* Validation and its limits *)

\* The image field of the body is missing, empty or no string.
LacksImage(body) == ~(body.image.isString /\ StrLen(body.image.s) # 0)
\* The sessionId field of the body is missing, empty or no string.
LacksSession(body) == ~(body.sessionId.isString /\ body.sessionId.s # "")
\* The image of the body is longer than the maximum size.
Oversized(body) == body.image.isString /\ StrLen(body.image.s) > MaxImageLen

\* The rejection the validation rules prescribe for a body, in the order the
\* handler applies them.
Prescribed(body) ==
    IF LacksImage(body) THEN Reject(400, "INVALID_INPUT")
    ELSE IF LacksSession(body) THEN Reject(400, "INVALID_SESSION")
    ELSE Reject(413, "PAYLOAD_TOO_LARGE")

\* The step answers request r and touches nothing else: no collaborator has
\* been called, and the caches with their counters and the document store
\* are as before.
AnswersUntouched(r) ==
    /\ scan'[r].pc = "done"
    /\ scan'[r].calls = {}
    /\ scanCache' = scanCache
    /\ collCache' = collCache
    /\ UNCHANGED dbVars

\* C11 as stated: the arrival of a request whose image is missing or no
\* string is answered 400 INVALID_INPUT, of one whose sessionId is missing or
\* no string 400 INVALID_SESSION, of one whose image exceeds the maximum size
\* 413 PAYLOAD_TOO_LARGE; the step calls no collaborator and leaves the
\* caches, their counters and the document store unchanged, and the answered
\* request takes no further step.
C11_ValidationRejections ==
    [][/\ Frozen("q1")
       /\ \A body \in SizeBodies :
            (/\ ScanArrive("q1", body)
             /\ LacksImage(body) \/ LacksSession(body) \/ Oversized(body))
            => /\ scanResp'["q1"] = Prescribed(body)
               /\ AnswersUntouched("q1")]_vars

\* C12 as stated: the arrival of a request with a valid sessionId whose image
\* has exactly the maximum size passes validation (it is answered from the
\* scan cache, answered 503 in degraded mode, or goes on to stage 1), and the
\* arrival of one whose image is one character longer is answered
\* 413 PAYLOAD_TOO_LARGE; the body parser in front of the handler included.
C12_InclusiveLimit ==
    [][\A body \in SizeBodies :
         (/\ ScanArrive("q1", body)
          /\ ~LacksImage(body)
          /\ ~LacksSession(body))
         => /\ StrLen(body.image.s) = MaxImageLen
                => scanResp'["q1"].code \in {"", "OK", "SERVICES_UNAVAILABLE"}
            /\ StrLen(body.image.s) = MaxImageLen + 1
                => scanResp'["q1"] = Reject(413, "PAYLOAD_TOO_LARGE")]_vars

---------------------------------------------------------------------------
(* Order of the stages *)

\* The collaborator calls of the handler in the order of its source text.
StageCalls ==
    <<"uploadRawScan", "analyzeImage", "generateMonsterVisual",
      "uploadMonsterImage", "saveMonster">>
CallsUpTo(n) == {StageCalls[i] : i \in 1..n}
\* The stage a request that awaits something is in.
StageNo(pc) ==
    CASE pc = "staging" -> 1
      [] pc \in {"analyzing", "analyzeSleep"} -> 2
      [] pc \in {"synth", "synthSleep"} -> 3
      [] pc \in {"assetSave", "assetSign"} -> 4
      [] pc \in {"ensureGet", "ensureWrite", "monsterSet", "countUpdate",
                 "statsSet"} -> 5

\* C13: within one request the stages run in the order validate, scan-cache
\* check, staging upload, analyze, synthesize, asset upload, saveMonster,
\* cache update, response, each started only when the outcome of the one
\* before is known: a request that awaits stage n has called exactly the
\* collaborators of stages 1..n and has no response yet; an answered request
\* has called a prefix of them; generateMonsterVisual has been called only
\* with analyzeImage's result at hand, uploadMonsterImage only with the
\* visual, saveMonster only with the image reference settled (signed URL or
\* data URI); a monster is in the scan cache only when saveMonster has been
\* called for it and it has been sent with cached:false.
C13_StageOrder ==
    /\ \A r \in ScanReqs :
        LET rec == scan[r]
        IN  /\ rec.pc = "idle" => rec.calls = {} /\ scanResp[r] = NoResp
            /\ rec.pc \notin {"idle", "done"}
                  => rec.calls = CallsUpTo(StageNo(rec.pc)) /\ scanResp[r] = NoResp
            /\ rec.pc = "done"
                  => /\ \E n \in 0..Len(StageCalls) : rec.calls = CallsUpTo(n)
                     /\ scanResp[r] # NoResp
            /\ rec.rt.st # "idle"
                  => rec.pc \in {"analyzing", "analyzeSleep", "synth", "synthSleep"}
            /\ "generateMonsterVisual" \in rec.calls
                  => rec.analysis = <<"analysis", rec.image>>
            /\ "uploadMonsterImage" \in rec.calls => rec.visual # NoVisual
            /\ "saveMonster" \in rec.calls
                  => /\ rec.imageUrl \in {rec.visual.dataUri, <<"https://signed", r>>}
                     /\ rec.monster = Assemble(r, rec, rec.imageUrl)
            /\ Fresh(r)
                  => /\ rec.calls = CallsUpTo(Len(StageCalls))
                     /\ scanResp[r].monster = rec.monster
                     /\ rec.monster.id \in DOMAIN monstersDb[rec.sessionId]
    /\ \A key \in DOMAIN scanCache.data :
        LET m == scanCache.data[key].v
        IN  /\ m.id \in ScanReqs
            /\ "saveMonster" \in scan[m.id].calls
            /\ Fresh(m.id)
            /\ scanResp[m.id].monster = m

\* A request went through all stages, its asset upload having failed, and
\* was answered with its monster.
C13_Witness ==
    \E r \in ScanReqs :
        /\ Fresh(r)
        /\ scan[r].calls = CallsUpTo(Len(StageCalls))
        /\ scan[r].imageUrl = scan[r].visual.dataUri
        /\ scan[r].rawScanUrl # <<"null">>

---------------------------------------------------------------------------
(* Degraded mode *)

\* The body passes the body parser and the handler's validation.
Valid(body) ==
    /\ BodyBytes(body) <= ParserLimit
    /\ ~LacksImage(body)
    /\ ~LacksSession(body)
    /\ ~Oversized(body)

\* One of vertexAIService, firestoreService, storageService failed to load.
Degraded == loaded < 3

\* C14: when the AI service, the document store or the blob store is not
\* loaded, the arrival of a valid request that does not hit the scan cache is
\* answered in that step with 503 SERVICES_UNAVAILABLE; no collaborator has
\* been called, no retry has been entered, both caches (contents and
\* counters) and the document store are unchanged, and the answered request
\* takes no further step.
C14_DegradedMode ==
    [][/\ Frozen("q1")
       /\ \A body \in SizeBodies :
            (/\ ScanArrive("q1", body)
             /\ Valid(body)
             /\ Degraded
             /\ ~(loaded >= 4 /\ getCachedScan(body.image.s).found))
            => /\ scanResp'["q1"] = Reject(503, "SERVICES_UNAVAILABLE")
               /\ scan'["q1"].rt = IdleRetry
               /\ AnswersUntouched("q1")]_vars

\* A valid request was answered 503 with a required service missing.
C14_Witness ==
    /\ Degraded
    /\ scanResp["q1"] = Reject(503, "SERVICES_UNAVAILABLE")
    /\ scan["q1"].image \in Images
    /\ scan["q1"].sessionId \in Sessions
    /\ scan["q1"].calls = {}

---------------------------------------------------------------------------
(* The caches *)

\* The keys of c a get would find at this moment.
LiveKeys(c) == {k \in DOMAIN c.data : ~NCExpired(c.data[k], now)}

\* C15: a setCachedScan / setCachedCollection called while its cache holds
\* fewer than maxKeys keys does not throw; a getCachedScan /
\* getCachedCollection of a key whose latest set lies within the TTL (and has
\* not been invalidated or flushed since) returns the value of that set; a get
\* of a key never set, or not set again since the last flushAll, returns
\* undefined.
C15_CacheRoundTrip ==
    /\ cs.op = "setCachedScan" /\ cs.size < ScanMaxKeys => ~cs.threw
    /\ cs.op = "setCachedCollection" /\ cs.size < CollMaxKeys => ~cs.threw
    /\ cs.op = "getCachedScan"
          => /\ cs.age = "within" => cs.found /\ cs.ret = cs.scanAt[cs.key].val
             /\ cs.age = "never" => ~cs.found
    /\ cs.op = "getCachedCollection"
          => /\ cs.age = "within" => cs.found /\ cs.ret = cs.collAt[cs.key].val
             /\ cs.age = "never" => ~cs.found

\* A get returned the collection stored by an earlier set.
C15_Witness ==
    /\ cs.op = "getCachedCollection"
    /\ cs.age = "within"
    /\ cs.found
    /\ cs.ret = CsMonsters

\* C16 as stated: a setCachedScan / setCachedCollection with a new key, called
\* while its cache holds maxKeys live entries, does not throw; afterwards the
\* new key is retrievable, the cache holds exactly maxKeys live entries, and
\* exactly one of the old entries is gone.
C16_EvictionOnOverflow ==
    [][/\ (/\ cs'.n = cs.n + 1
           /\ cs'.op = "setCachedScan"
           /\ cs'.isNew
           /\ Cardinality(LiveKeys(scanCache)) = ScanMaxKeys)
          => /\ ~cs'.threw
             /\ NCLive(scanCache', cs'.key, now)
             /\ Cardinality(DOMAIN scanCache'.data) = ScanMaxKeys
             /\ Cardinality(DOMAIN scanCache.data \ DOMAIN scanCache'.data) = 1
       /\ (/\ cs'.n = cs.n + 1
           /\ cs'.op = "setCachedCollection"
           /\ cs'.isNew
           /\ Cardinality(LiveKeys(collCache)) = CollMaxKeys)
          => /\ ~cs'.threw
             /\ NCLive(collCache', cs'.key, now)
             /\ Cardinality(DOMAIN collCache'.data) = CollMaxKeys
             /\ Cardinality(DOMAIN collCache.data \ DOMAIN collCache'.data) = 1]_vars

\* The entries of c as pairs of key and record.
Entries(c) == {<<k, c.data[k]>> : k \in DOMAIN c.data}

\* C17: in every state reached by any sequence of cacheService calls, sweeps
\* and clock readings, each cache holds at most maxKeys entries, live or not
\* (so at most maxKeys live ones), and no two entries of a cache have the same
\* key.
C17_CacheBounded ==
    /\ Cardinality(LiveKeys(scanCache)) <= ScanMaxKeys
    /\ Cardinality(DOMAIN scanCache.data) <= ScanMaxKeys
    /\ Cardinality(LiveKeys(collCache)) <= CollMaxKeys
    /\ Cardinality(DOMAIN collCache.data) <= CollMaxKeys
    /\ \A c \in {scanCache, collCache} :
         \A e1, e2 \in Entries(c) : e1[1] = e2[1] => e1 = e2

\* Both caches are full of live entries and a set of another key has just
\* been refused.
C17_Witness ==
    /\ Cardinality(LiveKeys(scanCache)) = ScanMaxKeys
    /\ Cardinality(LiveKeys(collCache)) = CollMaxKeys
    /\ cs.op = "setCachedCollection"
    /\ cs.isNew
    /\ cs.threw

ScanAfterTTLReruns ==
    \A r \in ScanReqs :
        (scanResp[r].status = 200 /\ scanResp[r].cached)
        => LET first == scanResp[r].monster.id
           IN  /\ Fresh(first)
               /\ scanResp[r].at <= scanResp[first].at + ScanStdTTL

\* A request with the image of an answered one arrived after the TTL and ran
\* the pipeline again.
RerunAfterTTL ==
    \E r1, r2 \in ScanReqs :
        /\ r1 # r2
        /\ scan[r1].image = scan[r2].image
        /\ Fresh(r1)
        /\ Fresh(r2)
        /\ scanResp[r2].at > scanResp[r1].at + ScanStdTTL

InvalidateOtherSession ==
    /\ cs.op = "invalidateCollection"
    /\ cs.isNew
    /\ DOMAIN collCache.data # {}

---------------------------------------------------------------------------
(* Rate limiting *)

\* C21 as stated: of the requests of one client made at one moment (so
\* within any 60-second window) at most 5 to POST /api/scan reach the scan
\* handler, and at most 10 to any other route under /api/ reach theirs; a
\* request that does not is answered 429.
C21_ScanRateLimit ==
    /\ \A ip \in Clients :
          /\ limiter.passed[ip]["scan"].count <= ScanMax
          /\ \A route \in ApiRoutes \ {"scan"} :
                limiter.passed[ip][route].count <= ApiMax
    /\ limiter.resp # PassedOn => limiter.resp.status = 429

\* What the server does instead: scan requests share the budget of
\* apiLimiter with every other route, 10 per client and window.
ScanSharesApiBudget ==
    \A ip \in Clients :
        LET atNow == {rt \in ApiRoutes : limiter.passed[ip][rt].at = now}
        IN  /\ \A rt \in ApiRoutes : limiter.passed[ip][rt].count <= ApiMax
            /\ (atNow = ApiRoutes) =>
                  limiter.passed[ip]["scan"].count
                    + limiter.passed[ip]["collection"].count <= ApiMax
            /\ limiter.scan = EmptyStore

\* Ten scan requests of one client have reached the handler at one moment
\* and the eleventh has been answered 429.
TenScansThenRefused ==
    \E ip \in Clients :
        /\ limiter.passed[ip]["scan"] = [at |-> now, count |-> ApiMax]
        /\ limiter.resp = TooMany("RATE_LIMIT_EXCEEDED")

---------------------------------------------------------------------------
(* Bot detection *)

\* The body is one verifyRecaptcha rejects when the secret is configured: its
\* token is missing, fails verification or scores below 0.5.
BotSuspect(body) == verifyRecaptcha(TRUE, body, TRUE) # NoResp

\* C22 as stated: when RECAPTCHA_SECRET_KEY is set, the arrival of a scan
\* request whose token is missing, fails verification or scores below 0.5 is
\* answered in that step with 400 or 403; the scan cache is not read, no
\* collaborator is called, and the request takes no further step.
C22_BotsRejected ==
    [][/\ Frozen("q1")
       /\ \A body \in CaptchaBodies :
            (ScanArriveEnv("q1", body, TRUE) /\ BotSuspect(body))
            => /\ scanResp'["q1"].status \in {400, 403}
               /\ AnswersUntouched("q1")]_vars

\* A request with the secret configured (the block logged its token) and a
\* token that fails verification was answered with a new monster.
BotScanSucceeds ==
    /\ scan["q1"].token = "t-failed"
    /\ <<"INFO", "reCAPTCHA token present on scan request">>
          \in {scan["q1"].log[i] : i \in DOMAIN scan["q1"].log}
    /\ Fresh("q1")

\* What the handler does instead: the token decides nothing, no request is
\* ever answered with a reCAPTCHA rejection.
NoCaptchaRejection ==
    \A r \in ScanReqs :
        /\ scanResp[r].status # 403
        /\ scanResp[r].code \notin
              {"RECAPTCHA_MISSING", "RECAPTCHA_FAILED", "RECAPTCHA_LOW_SCORE"}

---------------------------------------------------------------------------
(* Logging of failures *)

\* The event the handler logged last for request r, if any.
LastLogged(r) ==
    IF scan[r].log = <<>> THEN <<"none", "">> ELSE scan[r].log[Len(scan[r].log)]
\* A structured event that reports a failure.
FailureEvents ==
    {<<"WARNING", "Running in degraded mode">>, <<"ERROR", "Scan pipeline failure">>}

\* C23 as stated: a scan request that has been answered with a failure
\* (400, 413, 500 or 503) has a structured WARNING or ERROR event in its log,
\* written by cloudLogger before the response was sent: the last event of
\* the request.
C23_FailuresLogged ==
    \A r \in ScanReqs :
        scanResp[r].status >= 400 => LastLogged(r)[1] \in {"WARNING", "ERROR"}

\* What the handler does instead: the 503 of degraded mode and the 500 of
\* the catch block are logged before they are sent, the rejections of the
\* validation are sent without any log event, and the 500 of the body parser
\* is reported by console.error alone.
FailuresLoggedButValidation ==
    \A r \in ScanReqs :
        /\ scanResp[r].code \in {"SERVICES_UNAVAILABLE", "PIPELINE_ERROR"}
              => LastLogged(r) \in FailureEvents
        /\ scanResp[r].code \in {"INVALID_INPUT", "INVALID_SESSION", "PAYLOAD_TOO_LARGE"}
              => scan[r].log = <<>>
        /\ scanResp[r].code = "INTERNAL_ERROR"
              => scan[r].log = << <<"console.error", "Unhandled error">> >>

\* A request failed in stage 3 after its staging upload had failed: both
\* events are in its log, the failure last.
PipelineFailureLogged ==
    \E r \in ScanReqs :
        /\ scanResp[r].code = "PIPELINE_ERROR"
        /\ scan[r].log = << <<"WARNING", "Raw scan upload failed (non-fatal)">>,
                            <<"ERROR", "Scan pipeline failure">> >>

---------------------------------------------------------------------------
(* The aggregate counters *)

\* No scan request is in flight.
Quiescent == \A r \in ScanReqs : scan[r].pc \in {"idle", "done"}
\* saveMonster completed for request r, but setCachedScan threw afterwards.
SavedThenCacheFull(r) == scanResp[r].error = <<"ECACHEFULL">>

\* C24 as stated: whenever no scan request is in flight, analytics
\* totalMonsters equals the number of scan requests answered 200 with
\* cached:false; cache hits and failed requests have not changed it.
C24_AnalyticsCountsSuccesses ==
    Quiescent => analytics.totalMonsters = Cardinality({r \in ScanReqs : Fresh(r)})

\* What the server does instead: the counters are incremented by the last
\* write of saveMonster, so they count the completed saveMonster calls: the
\* requests answered with cached:false and those that failed afterwards
\* because the scan cache was full.
AnalyticsCountsSaves ==
    /\ analytics.totalMonsters =
          Cardinality({r \in ScanReqs : Fresh(r) \/ SavedThenCacheFull(r)})
    /\ analytics.totalScans = analytics.totalMonsters

\* Both requests completed saveMonster, one of them was answered 500.
CountedButFailed ==
    /\ Quiescent
    /\ analytics.totalMonsters = 2
    /\ \E r \in ScanReqs : SavedThenCacheFull(r) /\ scanResp[r].status = 500

---------------------------------------------------------------------------
(* Backoff *)

\* C25: in a call retry(fn, n, d), the timer armed after failed attempt c has
\* the delay d * 2^(c - 1) (d, 2d, 4d, ... and nothing added), and the time
\* waited when attempt c has begun, succeeded or failed is the sum of the
\* timers before it, d * (2^(c - 1) - 1): nothing before the first attempt,
\* nothing after a successful or the final failed one.  An fn that always
\* fails is rejected after a total wait of d * (2^n - 1).
C25_BackoffDelays ==
    LET rt == rp.rt
    IN  rt.st # "idle" =>
          /\ rt.waited = rp.d * (2^(rt.calls - 1) - 1)
          /\ rt.st = "sleeping" => rt.delay = rp.d * 2^(rt.calls - 1)
          /\ rt.calls = 1 => rt.waited = 0
          /\ rt.st = "rejected" =>
                /\ rt.calls = rp.n + 1
                /\ rt.waited = rp.d * (2^rp.n - 1)

\* An always-failing fn under the defaults n = 3, d = 1000 has been rejected
\* after waits of 1000, 2000 and 4000 ms.
C25_Witness ==
    /\ rp.rt.st = "rejected"
    /\ rp.n = DefaultRetries
    /\ rp.d = DefaultDelay
    /\ rp.rt.calls = 4
    /\ rp.rt.waited = 7000

---------------------------------------------------------------------------
(* What the fingerprint looks at *)

\* The four windows of 64 characters at the offsets 0, floor(len / 4),
\* floor(len / 2) and floor(3 * len / 4) of an image.
WindowsOf(img) ==
    LET len == StrLen(img)
        at(o) == Substring(img, o, o + WindowLen)
    IN  <<at(0), at(len \div 4), at(len \div 2), at((3 * len) \div 4)>>

OtherWindowMisses ==
    \A r1, r2 \in ScanReqs :
        (/\ scanResp[r2].status = 200
         /\ scanResp[r2].cached
         /\ scanResp[r2].monster = scanResp[r1].monster
         /\ Fresh(r1))
        => WindowsOf(scan[r2].image) = WindowsOf(scan[r1].image)

---------------------------------------------------------------------------
(* Session counters under concurrency *)

\* saveMonster was called for request r and resolved.
SaveCompleted(r) == Fresh(r) \/ SavedThenCacheFull(r)
\* Every call of saveMonster and of setPlayerName made so far has completed
\* successfully.
AllCallsSucceeded ==
    /\ \A r \in ScanReqs :
          /\ scan[r].pc \in {"idle", "done"}
          /\ "saveMonster" \in scan[r].calls => SaveCompleted(r)
    /\ player.pc \in {"idle", "done"}
    /\ player.pc = "done" /\ player.sessionId # "" => player.status = 200

\* C27 as stated: once all calls of saveMonster and setPlayerName have
\* completed successfully, in whatever order their steps interleaved, each
\* session's monsterCount equals the number of monster documents stored under
\* it, and a name set by a completed setPlayerName is the session's
\* playerName.
C27_SessionConsistent ==
    AllCallsSucceeded =>
        /\ \A s \in Sessions :
              sessionsDb[s].monsterCount = Cardinality(DOMAIN monstersDb[s])
        /\ player.status = 200 => sessionsDb[player.sessionId].playerName = player.name

\* What holds instead: the session is consistent unless both calls were for
\* the same session and both read 'not exists' in ensureSession.
ConsistentUnlessBothCreate ==
    (/\ AllCallsSucceeded
     /\ ~(/\ player.status = 200
          /\ SaveCompleted("q1")
          /\ scan["q1"].sessionId = player.sessionId
          /\ ~scan["q1"].exists
          /\ ~player.exists))
    => /\ \A s \in Sessions :
             sessionsDb[s].monsterCount = Cardinality(DOMAIN monstersDb[s])
       /\ player.status = 200 => sessionsDb[player.sessionId].playerName = player.name

\* Both calls completed, the monster is stored, and the session says
\* monsterCount 0.
CountLost ==
    /\ AllCallsSucceeded
    /\ Fresh("q1")
    /\ player.status = 200
    /\ Cardinality(DOMAIN monstersDb["S1"]) = 1
    /\ sessionsDb["S1"].monsterCount = 0

\* Both calls completed and the name the player set has been replaced by
\* 'Anonymous'.
NameLost ==
    /\ AllCallsSucceeded
    /\ Fresh("q1")
    /\ player.status = 200
    /\ player.name = <<65, 115, 104>>
    /\ sessionsDb[player.sessionId].playerName = Anonymous
    /\ sessionsDb[player.sessionId].monsterCount = 1

\* The same between two saveMonster calls: both monsters are stored and the
\* session says monsterCount 1.
TwoSavesOneCounted ==
    /\ Fresh("q1")
    /\ Fresh("q2")
    /\ Cardinality(DOMAIN monstersDb["S1"]) = 2
    /\ sessionsDb["S1"].monsterCount = 1

---------------------------------------------------------------------------
(* One response per request *)

\* C28: a scan request gets its response in the step in which its handler
\* ends, whatever the path (rejection by the parser or the validation, cache
\* hit, 503, success, catch block), the response is never replaced by a
\* second one, an answered request takes no further step, and, when every
\* pending call settles and every timer fires, a request that has arrived is
\* answered at last.
C28_ExactlyOneResponse ==
    /\ [][\A r \in ScanReqs :
             /\ scanResp'[r] # scanResp[r]
                   => /\ scanResp[r] = NoResp
                      /\ scan[r].pc # "done"
                      /\ scan'[r].pc = "done"
             /\ (scan[r].pc # "done" /\ scan'[r].pc = "done")
                   => scanResp'[r] # NoResp
             /\ Frozen(r)]_vars
    /\ \A r \in ScanReqs : (scan[r].pc # "idle") ~> (scanResp[r] # NoResp)

\* One request was answered with its monster and the other, whose cache
\* write threw after saveMonster, with the 500 of the catch block.
C28_Witness ==
    \E r1, r2 \in ScanReqs :
        /\ Fresh(r1)
        /\ SavedThenCacheFull(r2)
        /\ scanResp[r2].status = 500
        /\ scan[r2].pc = "done"


---------------------------------------------------------------------------
(* Returned monsters and the session's collection *)

\* The monster of r's response is a document of the collection of the
\* session that sent r.
InOwnCollection(r) ==
    /\ scanResp[r].monster.id \in DOMAIN monstersDb[scan[r].sessionId]
    /\ monstersDb[scan[r].sessionId][scanResp[r].monster.id] = scanResp[r].monster

\* C29 as stated: every monster returned by a successful scan response,
\* cached:false or cached:true, is a document of the collection of the
\* session that sent the request.  A monster document is never deleted, so
\* what holds at the response holds in every later state.
C29_ReturnedMonsterPersisted ==
    \A r \in ScanReqs : scanResp[r].status = 200 => InOwnCollection(r)

\* What the code does guarantee: a monster returned with cached:false is in
\* the requesting session's collection, and one returned with cached:true is
\* a document of the collection of some session.
ReturnedMonsterPersistedSomewhere ==
    \A r \in ScanReqs :
        scanResp[r].status = 200
        => /\ ~scanResp[r].cached => InOwnCollection(r)
           /\ \E s \in Sessions :
                 /\ scanResp[r].monster.id \in DOMAIN monstersDb[s]
                 /\ monstersDb[s][scanResp[r].monster.id] = scanResp[r].monster

\* A cache hit was served to a session whose collection does not hold the
\* monster.
HitOutsideCollection ==
    \E r \in ScanReqs :
        /\ scanResp[r].status = 200 /\ scanResp[r].cached
        /\ ~InOwnCollection(r)
        /\ monstersDb[scan[r].sessionId] = [x \in {} |-> NoMonster]


---------------------------------------------------------------------------
(* Failed requests and the document store *)

\* Request r was answered with an error response.
Failed(r) == scanResp[r].status >= 400
\* A monster document written for request r is stored (the id is the
\* request's own).
DocumentOf(r) == \E s \in Sessions : r \in DOMAIN monstersDb[s]
\* The requests of session s that were not answered with an error.
NotFailedOf(s) ==
    {r \in ScanReqs : scan[r].sessionId = s /\ ~Failed(r)}

\* C30 as stated: a scan request that ended with an error response has left
\* the document store unchanged: no monster document written for it is
\* stored, and neither a session's monsterCount nor the global counters were
\* incremented by it (each request increments them at most once, so they
\* never exceed the number of requests not answered with an error).
C30_ErrorLeavesStoreUnchanged ==
    /\ \A r \in ScanReqs : Failed(r) => ~DocumentOf(r)
    /\ \A s \in Sessions :
          sessionsDb[s].monsterCount <= Cardinality(NotFailedOf(s))
    /\ analytics.totalMonsters
          <= Cardinality({r \in ScanReqs : ~Failed(r)})

\* What the code does guarantee: a request that failed before the first
\* write of saveMonster resolved has no monster document, and the counters
\* count no more than the requests that reached the write in question.
ErrorBeforeWritesLeavesStore ==
    /\ \A r \in ScanReqs :
          (/\ Failed(r)
           /\ scanResp[r].error \notin
                 {<<"firestore", "count">>, <<"firestore", "stats">>,
                  <<"ECACHEFULL">>})
          => ~DocumentOf(r)
    /\ \A s \in Sessions :
          sessionsDb[s].monsterCount
             <= Cardinality({r \in ScanReqs :
                    /\ scan[r].sessionId = s
                    /\ \/ ~Failed(r)
                       \/ scanResp[r].error \in
                             {<<"firestore", "stats">>, <<"ECACHEFULL">>}})
    /\ analytics.totalMonsters
          <= Cardinality({r \in ScanReqs : ~Failed(r) \/ SavedThenCacheFull(r)})

\* The increment of monsterCount was rejected after the monster document
\* had been written: the request was answered 500 and the document stays.
StoredThenFailed ==
    \E r \in ScanReqs :
        /\ scanResp[r].status = 500
        /\ scanResp[r].error = <<"firestore", "count">>
        /\ r \in DOMAIN monstersDb[scan[r].sessionId]
        /\ sessionsDb[scan[r].sessionId].monsterCount = 0

\* The write of the global counters was rejected after the monster document
\* and the session's count had been written.
CountedThenFailed ==
    \E r \in ScanReqs :
        /\ scanResp[r].status = 500
        /\ scanResp[r].error = <<"firestore", "stats">>
        /\ r \in DOMAIN monstersDb[scan[r].sessionId]
        /\ sessionsDb[scan[r].sessionId].monsterCount = 1
        /\ analytics.totalMonsters = 0

\* setCachedScan threw after saveMonster had succeeded: the request was
\* answered 500 with everything written.
SavedThenFailed ==
    \E r \in ScanReqs :
        /\ scanResp[r].status = 500 /\ SavedThenCacheFull(r)
        /\ r \in DOMAIN monstersDb[scan[r].sessionId]
        /\ sessionsDb[scan[r].sessionId].monsterCount >= 1
        /\ analytics.totalMonsters >= 1

===========================================================================
